---- MODULE Spec2Model ----
(***************************************************************************)
(* The fluid engine of refactored_scripts: the per-fluid FluidQueue        *)
(* (queue.js), the cell rule fluidUpdate with its flag recompute, the      *)
(* bucket place / pickup handlers (fluids.js) and the BlockUpdate notifier *)
(* (BlockUpdate.js), over a small voxel world.                             *)
(*                                                                         *)
(* World conventions of the model:                                         *)
(*  - a position is <<x, y, z>>; north is z-1, east x+1, south z+1,        *)
(*    west x-1 (HORIZONTAL_DIRECTIONS); block.offset(dir) is read as the   *)
(*    block at location + (dx, dy, dz), as every variant of the code       *)
(*    intends;                                                             *)
(*  - block.isValid() is the validity test the code uses it as;            *)
(*  - positions outside the modelled region hold stone that never changes; *)
(*  - the columns in  unloaded  are in a chunk that is not loaded: no      *)
(*    block resolves there (getBlock / offset give undefined);             *)
(*  - no block resolves below the lowest layer of the world, MinY.         *)
(***************************************************************************)
EXTENDS Integers, Sequences, FiniteSets, TLC

\* ------------------------------------------------------------------------
\* Bounds of the model
\* ------------------------------------------------------------------------
MaxX == 2
MaxExternal == 2
MaxDeferred == 2
SmallBatch == 1
FloorRadius == 7
ChannelLen == 3
MaxListeners == 3

\* ------------------------------------------------------------------------
\* Program constants
\* ------------------------------------------------------------------------
MAX_SPREAD_DISTANCE == 7
UPDATES_PER_TICK == 20

\* the lowest layer of the overworld
MinY == -64

\* HORIZONTAL_DIRECTIONS, in scan order n, e, s, w
HORIZONTAL_DIRECTIONS ==
  << [dx |-> 0,  dy |-> 0, dz |-> -1, facing |-> "n"],
     [dx |-> 1,  dy |-> 0, dz |-> 0,  facing |-> "e"],
     [dx |-> 0,  dy |-> 0, dz |-> 1,  facing |-> "s"],
     [dx |-> -1, dy |-> 0, dz |-> 0,  facing |-> "w"] >>

\* NEIGHBOR_OFFSETS of BlockUpdate: the block itself, e, w, up, down, s, n
NEIGHBOR_OFFSETS ==
  << <<0, 0, 0>>, <<1, 0, 0>>, <<-1, 0, 0>>, <<0, 1, 0>>,
     <<0, -1, 0>>, <<0, 0, 1>>, <<0, 0, -1>> >>

\* flowDirectionToNumber
flowDirectionToNumber(d) ==
  CASE d = "n" -> 0
    [] d = "none" -> 0
    [] d = "e" -> 1
    [] d = "s" -> 2
    [] d = "w" -> 3

\* FluidRegistry keys: the fluids that have a catalog entry (and a queue)
FluidRegistry == {"lumstudio:acid", "lumstudio:oil"}

\* a block that carries the "fluid" tag but has no FluidRegistry entry
UnregisteredFluid == "lumstudio:tar"

FluidTagged == FluidRegistry \cup {UnregisteredFluid}

AirId == "minecraft:air"
StoneId == "minecraft:stone"
DimensionId == "minecraft:overworld"

\* ------------------------------------------------------------------------
\* Blocks and permutations
\* ------------------------------------------------------------------------
\* the six lumstudio:invisible_* states, in INVISIBLE_STATE_NAMES order
\* (north, east, south, west, up, down), all at their default 0
DefaultInv == <<0, 0, 0, 0, 0, 0>>

\* a block: its type and, for a fluid block, the states of its permutation
\* (a block of another type carries the neutral values)
MkBlock(t, d, dir, inv) ==
  [typeId |-> t, depth |-> d, direction |-> dir, inv |-> inv]

AirBlock == MkBlock(AirId, 0, "none", DefaultInv)
StoneBlock == MkBlock(StoneId, 0, "none", DefaultInv)
\* what getBlock / offset give where no block resolves
Undefined == MkBlock("undefined", 0, "none", DefaultInv)

\* the default permutation of a fluid block type: every state at the first
\* value its block JSON lists (depth 1, direction none, flags 0)
DefaultPermutation(t) == MkBlock(t, 1, "none", DefaultInv)

IsAir(b) == b.typeId = AirId
HasFluidTag(b) == b.typeId \in FluidTagged

\* `${x},${y},${z},${dimension.id}` and its split(',') in run: the key keeps
\* the four fields apart, the three coordinates as the numbers unary plus
\* gives back
getBlockLocationString(p) == <<p[1], p[2], p[3], DimensionId>>
KeyLocation(k) == <<k[1], k[2], k[3]>>

Offset(p, o) == <<p[1] + o[1], p[2] + o[2], p[3] + o[3]>>
DirOffset(p, dir) == <<p[1] + dir.dx, p[2] + dir.dy, p[3] + dir.dz>>
Below(p) == <<p[1], p[2] - 1, p[3]>>
Above(p) == <<p[1], p[2] + 1, p[3]>>

\* The engine's state while a handler runs: w.grid, w.unloaded, w.queue (the
\* #queue of each FluidQueue, a Set in insertion order), w.active
\* (activeFluidBlocks)
Resolve(w, p) ==
  IF p[1] \in w.unloaded \/ p[2] < MinY THEN Undefined
  ELSE IF p \in DOMAIN w.grid THEN w.grid[p]
  ELSE StoneBlock

SeqRange(s) == {s[i] : i \in 1..Len(s)}

\* block.setPermutation / block.setType on a resolved block
SetBlock(w, p, b) ==
  IF p \in DOMAIN w.grid THEN [w EXCEPT !.grid[p] = b] ELSE w

\* FluidQueue.add
addNoDedup(w, f, p) ==
  IF Resolve(w, p) # Undefined
  THEN [w EXCEPT !.queue[f] = Append(@, getBlockLocationString(p))]
  ELSE w

add(w, f, p) ==
  IF Resolve(w, p) # Undefined
  THEN IF getBlockLocationString(p) \in SeqRange(w.queue[f])
       THEN w
       ELSE [w EXCEPT !.queue[f] = Append(@, getBlockLocationString(p))]
  ELSE w

\* ------------------------------------------------------------------------
\* The flag recompute
\* ------------------------------------------------------------------------
\* neighborStates of fluidUpdate: for each horizontal direction the
\* neighbour block when it is the same fluid, Undefined otherwise
NeighborStates(w, p, typeId) ==
  [i \in 1..4 |->
     LET neighbor == Resolve(w, DirOffset(p, HORIZONTAL_DIRECTIONS[i]))
     IN IF neighbor.typeId = typeId THEN neighbor ELSE Undefined]

\* the scan of lines 231-248 for maxNeighborDepth / flowDirection: the
\* facing of the first neighbour (n, e, s, w) of the greatest depth
RECURSIVE ScanFlow(_, _, _, _)
ScanFlow(ns, i, maxNeighborDepth, flowDirection) ==
  IF i > 4 THEN flowDirection
  ELSE IF ns[i] # Undefined /\ ns[i].depth > maxNeighborDepth
       THEN ScanFlow(ns, i + 1, ns[i].depth, HORIZONTAL_DIRECTIONS[i].facing)
       ELSE ScanFlow(ns, i + 1, maxNeighborDepth, flowDirection)

FlowDirection(ns) == ScanFlow(ns, 1, -1, "none")

BoolToNumber(b) == IF b THEN 1 ELSE 0

\* the flag written at state index j (1..4) by the loop of
\* getHorizontalFlowPermutation: iteration i writes index (i + rotation) % 4
HorizontalFlag(permutation, ns, rotation, j) ==
  LET i == CHOOSE k \in 0..3 : (k + rotation) % 4 = j - 1
      neighbor == ns[i + 1]
  IN IF neighbor # Undefined
     THEN (IF permutation.depth < neighbor.depth THEN 2 ELSE 0)
     ELSE 0

getHorizontalFlowPermutationNoRotation(permutation, ns, hasFluidBelow, isSource, flowDirection) ==
  [permutation EXCEPT
     !.direction = flowDirection,
     !.inv = [j \in 1..6 |->
                IF j = 6 THEN BoolToNumber(hasFluidBelow)
                ELSE IF j = 5 THEN permutation.inv[5]
                ELSE HorizontalFlag(permutation, ns, 0, j)]]

getHorizontalFlowPermutationOldRotation(permutation, ns, hasFluidBelow, isSource, flowDirection) ==
  LET rotation == flowDirectionToNumber(permutation.direction)
  IN [permutation EXCEPT
        !.direction = flowDirection,
        !.inv = [j \in 1..6 |->
                   IF j = 6 THEN BoolToNumber(hasFluidBelow)
                   ELSE IF j = 5 THEN permutation.inv[5]
                   ELSE HorizontalFlag(permutation, ns, rotation, j)]]

getHorizontalFlowPermutation(permutation, ns, hasFluidBelow, isSource, flowDirection) ==
  LET rotation == flowDirectionToNumber(flowDirection)
  IN [permutation EXCEPT
        !.direction = flowDirection,
        !.inv = [j \in 1..6 |->
                   IF j = 6 THEN BoolToNumber(hasFluidBelow)
                   ELSE IF j = 5 THEN permutation.inv[5]
                   ELSE HorizontalFlag(permutation, ns, rotation, j)]]

getFallingFlowPermutation(permutation, ns, hasFluidBelow, hasFluidAbove, isSource) ==
  [permutation EXCEPT
     !.inv = [j \in 1..6 |->
                IF j = 5 THEN BoolToNumber(hasFluidAbove)
                ELSE IF j = 6 THEN BoolToNumber(hasFluidBelow)
                ELSE IF ns[j] # Undefined
                     THEN (IF permutation.depth < ns[j].depth THEN 2
                           ELSE BoolToNumber(ns[j].depth =
                                  permutation.depth - 1 - BoolToNumber(isSource)))
                     ELSE 0]]

\* a comparison of the two objects instead of their states
arePermutationsSame(perm1, perm2) == FALSE

arePermutationsEqual(perm1, perm2) ==
  /\ perm1.depth = perm2.depth
  /\ perm1.direction = perm2.direction
  /\ perm1.inv = perm2.inv

\* ------------------------------------------------------------------------
\* fluidUpdate
\* ------------------------------------------------------------------------
ActiveAdd(w, p) == [w EXCEPT !.active = @ \cup {getBlockLocationString(p)}]
ActiveDelete(w, p) == [w EXCEPT !.active = @ \ {getBlockLocationString(p)}]

\* lines 211-223: the cell below is air
\* the fall that marks the cell below a source as a stream too
FallMarksStream(w, p) ==
  LET block == Resolve(w, p)
      isSourceBlock == block.depth = MAX_SPREAD_DISTANCE
      fallingFluidPermutation == [block EXCEPT !.depth = 8]
      w1 == SetBlock(w, Below(p), fallingFluidPermutation)
      w2 == ActiveAdd(w1, Below(p))
      w3 == add(w2, block.typeId, Below(p))
  IN IF ~isSourceBlock
     THEN SetBlock(ActiveDelete(w3, p), p, AirBlock)
     ELSE w3

\* the fall that hands the depth of the origin down
FallKeepsDepth(w, p) ==
  LET block == Resolve(w, p)
      isSourceBlock == block.depth = MAX_SPREAD_DISTANCE
      w1 == SetBlock(w, Below(p), block)
      w2 == ActiveAdd(w1, Below(p))
      w3 == add(w2, block.typeId, Below(p))
  IN IF ~isSourceBlock
     THEN SetBlock(ActiveDelete(w3, p), p, AirBlock)
     ELSE w3

\* the fall with the origin left in the index
FallKeepsTrack(w, p) ==
  LET block == Resolve(w, p)
      isSourceBlock == block.depth = MAX_SPREAD_DISTANCE
      fallingFluidPermutation ==
        [block EXCEPT !.depth = IF isSourceBlock THEN MAX_SPREAD_DISTANCE ELSE 8]
      w1 == SetBlock(w, Below(p), fallingFluidPermutation)
      w2 == ActiveAdd(w1, Below(p))
      w3 == add(w2, block.typeId, Below(p))
  IN IF ~isSourceBlock
     THEN SetBlock(w3, p, AirBlock)
     ELSE w3

Fall(w, p) ==
  LET block == Resolve(w, p)
      isSourceBlock == block.depth = MAX_SPREAD_DISTANCE
      fallingFluidPermutation ==
        [block EXCEPT !.depth = IF isSourceBlock THEN MAX_SPREAD_DISTANCE ELSE 8]
      w1 == SetBlock(w, Below(p), fallingFluidPermutation)
      w2 == ActiveAdd(w1, Below(p))
      w3 == add(w2, block.typeId, Below(p))
  IN IF ~isSourceBlock
     THEN SetBlock(ActiveDelete(w3, p), p, AirBlock)
     ELSE w3

\* lines 225-255
isFlowingDownward(w, p) == Resolve(w, Above(p)).typeId = Resolve(w, p).typeId

hasNeighborWithOtherDepth(w, p) ==
  LET block == Resolve(w, p)
      ns == NeighborStates(w, p, block.typeId)
  IN \E i \in 1..4 : ns[i] # Undefined /\ ns[i].depth # block.depth

hasNeighborWithGreaterDepth(w, p) ==
  LET block == Resolve(w, p)
      ns == NeighborStates(w, p, block.typeId)
  IN \E i \in 1..4 : ns[i] # Undefined /\ ns[i].depth > block.depth

canBeSustainedNoSource(w, p) ==
  isFlowingDownward(w, p) \/ hasNeighborWithGreaterDepth(w, p)

canBeSustained(w, p) ==
  \/ Resolve(w, p).depth = MAX_SPREAD_DISTANCE
  \/ isFlowingDownward(w, p)
  \/ hasNeighborWithGreaterDepth(w, p)

\* lines 257-261
Decay(w, p) == SetBlock(ActiveDelete(w, p), p, AirBlock)

\* lines 265-273, one direction of the loop
\* a spread that hands the depth of the updated cell on
SpreadDirSameDepth(w, p, i, spreadingPermutation) ==
  LET n == DirOffset(p, HORIZONTAL_DIRECTIONS[i])
      neighbor == Resolve(w, n)
  IN IF neighbor # Undefined /\ IsAir(neighbor)
     THEN add(ActiveAdd(SetBlock(w, n, Resolve(w, p)), n),
              spreadingPermutation.typeId, n)
     ELSE w

\* a spread that also raises a shallower neighbour of the same fluid
SpreadDirRaising(w, p, i, spreadingPermutation) ==
  LET n == DirOffset(p, HORIZONTAL_DIRECTIONS[i])
      neighbor == Resolve(w, n)
  IN IF /\ neighbor # Undefined
        /\ \/ IsAir(neighbor)
           \/ /\ neighbor.typeId = spreadingPermutation.typeId
              /\ neighbor.depth < spreadingPermutation.depth
     THEN add(ActiveAdd(SetBlock(w, n, spreadingPermutation), n),
              spreadingPermutation.typeId, n)
     ELSE w

SpreadDir(w, p, i, spreadingPermutation) ==
  LET n == DirOffset(p, HORIZONTAL_DIRECTIONS[i])
      neighbor == Resolve(w, n)
  IN IF neighbor # Undefined /\ IsAir(neighbor)
     THEN add(ActiveAdd(SetBlock(w, n, spreadingPermutation), n),
              spreadingPermutation.typeId, n)
     ELSE w

\* lines 263-274
SpreadSameDepth(w, p) ==
  LET block == Resolve(w, p)
  IN IF block.depth > 1 /\ ~isFlowingDownward(w, p)
     THEN SpreadDir(SpreadDir(SpreadDir(SpreadDir(w, p, 1, block), p, 2, block),
                              p, 3, block), p, 4, block)
     ELSE w

SpreadWhileFalling(w, p) ==
  LET block == Resolve(w, p)
      spreadingPermutation == [block EXCEPT !.depth = block.depth - 1]
  IN IF block.depth > 1
     THEN SpreadDir(SpreadDir(SpreadDir(SpreadDir(w, p, 1, spreadingPermutation),
                                        p, 2, spreadingPermutation),
                              p, 3, spreadingPermutation),
                    p, 4, spreadingPermutation)
     ELSE w

Spread(w, p) ==
  LET block == Resolve(w, p)
      spreadingPermutation == [block EXCEPT !.depth = block.depth - 1]
  IN IF block.depth > 1 /\ ~isFlowingDownward(w, p)
     THEN SpreadDir(SpreadDir(SpreadDir(SpreadDir(w, p, 1, spreadingPermutation),
                                        p, 2, spreadingPermutation),
                              p, 3, spreadingPermutation),
                    p, 4, spreadingPermutation)
     ELSE w

\* lines 276-286: w0 is the state the neighbour scan saw (before the spread),
\* w the state after it
NewPermutation(w0, w, p) ==
  LET block == Resolve(w0, p)
      typeId == block.typeId
      ns == NeighborStates(w0, p, typeId)
      hasFluidBelow == Resolve(w, Below(p)).typeId = typeId
      isSourceBlock == block.depth = MAX_SPREAD_DISTANCE
  IN IF isFlowingDownward(w0, p)
     THEN getFallingFlowPermutation(block, ns, hasFluidBelow, TRUE, isSourceBlock)
     ELSE getHorizontalFlowPermutation(block, ns, hasFluidBelow, isSourceBlock,
                                       FlowDirection(ns))

\* lines 284-286: whether block.setPermutation(newPermutation) is called
WritesUpdatedCell(w0, w, p) ==
  ~arePermutationsEqual(Resolve(w, p), NewPermutation(w0, w, p))

\* a recompute that puts the updated cell back into its queue
RecomputeRequeues(w0, w, p) ==
  add(IF WritesUpdatedCell(w0, w, p)
      THEN SetBlock(w, p, NewPermutation(w0, w, p))
      ELSE w,
      Resolve(w0, p).typeId, p)

Recompute(w0, w, p) ==
  IF WritesUpdatedCell(w0, w, p)
  THEN SetBlock(w, p, NewPermutation(w0, w, p))
  ELSE w

\* which rule of fluidUpdate applies to the block at p: "none" (early
\* return), "fall", "decay", "stay" (spread and flag recompute) or "throw"
\* (spread, then line 276 reads typeId of the undefined block.below())
UpdateRule(w, p) ==
  LET block == Resolve(w, p)
  IN IF block = Undefined \/ block.typeId \notin FluidRegistry THEN "none"
     ELSE IF IsAir(Resolve(w, Below(p))) THEN "fall"
     ELSE IF ~canBeSustained(w, p) THEN "decay"
     ELSE IF Resolve(w, Below(p)) = Undefined THEN "throw"
     ELSE "stay"

fluidUpdateFallThrough(w, p) ==
  CASE UpdateRule(w, p) = "none" -> w
    [] UpdateRule(w, p) = "fall" ->
         IF Resolve(w, p).depth = MAX_SPREAD_DISTANCE
         THEN Recompute(Fall(w, p), Spread(Fall(w, p), p), p)
         ELSE Fall(w, p)
    [] UpdateRule(w, p) = "decay" -> Decay(w, p)
    [] UpdateRule(w, p) = "stay" -> Recompute(w, Spread(w, p), p)
    [] UpdateRule(w, p) = "throw" -> Spread(w, p)

fluidUpdate(w, p) ==
  CASE UpdateRule(w, p) = "none" -> w
    [] UpdateRule(w, p) = "fall" -> Fall(w, p)
    [] UpdateRule(w, p) = "decay" -> Decay(w, p)
    [] UpdateRule(w, p) = "stay" -> Recompute(w, Spread(w, p), p)
    [] UpdateRule(w, p) = "throw" -> Spread(w, p)

\* ------------------------------------------------------------------------
\* BlockUpdate and the listener of fluids.js
\* ------------------------------------------------------------------------
\* the callback with one queue for every block that has the fluid tag
ListenerSharedQueue(w, p) ==
  LET block == Resolve(w, p)
  IN IF block # Undefined /\ HasFluidTag(block)
     THEN add(w, IF block.typeId \in FluidRegistry THEN block.typeId
                 ELSE CHOOSE f \in FluidRegistry : TRUE, p)
     ELSE w

\* the BlockUpdate.on callback of initialize (lines 344-350)
Listener(w, p) ==
  LET block == Resolve(w, p)
  IN IF block # Undefined /\ block.typeId \in FluidRegistry
     THEN add(w, block.typeId, p)
     ELSE w

RECURSIVE NotifyFrom(_, _, _)
NotifyFrom(w, location, i) ==
  IF i > Len(NEIGHBOR_OFFSETS) THEN w
  ELSE NotifyFrom(Listener(w, Offset(location, NEIGHBOR_OFFSETS[i])), location, i + 1)

\* some block the listener is called for is pending in its queue already
ListenerReAdds(w, location) ==
  \E i \in 1..Len(NEIGHBOR_OFFSETS) :
    LET q == Offset(location, NEIGHBOR_OFFSETS[i])
        block == Resolve(w, q)
    IN /\ block # Undefined
       /\ block.typeId \in FluidRegistry
       /\ getBlockLocationString(q) \in SeqRange(w.queue[block.typeId])

\* BlockUpdate.triggerForNeighborsAt
triggerForNeighborsAt(w, location) == NotifyFrom(w, location, 1)

\* BlockUpdate.trigger
trigger(w, sourceBlock) ==
  IF Resolve(w, sourceBlock) = Undefined THEN w
  ELSE NotifyFrom(w, sourceBlock, 1)

\* ------------------------------------------------------------------------
\* BlockUpdate with every registered listener
\* ------------------------------------------------------------------------
\* a registered callback is the one of initialize, or the callback of
\* another script, which changes nothing of the fluid state
CallListener(kind, w, p) == IF kind = "fluid" THEN Listener(w, p) ELSE w

\* the ids in the order of for (const id in Events): ascending
EventIds(events) ==
  SelectSeq([n \in 1..MaxListeners |-> n - 1], LAMBDA id : id \in DOMAIN events)

\* the callbacks called one after the other with no try/catch: the first
\* error ends the loop
RECURSIVE triggerEventsNoCatch(_, _, _, _, _, _)
triggerEventsNoCatch(events, ids, st, location, i, throwing) ==
  IF ids = <<>> THEN st
  ELSE LET id == Head(ids)
           threw == <<id, i>> \in throwing
           after == [w |-> IF threw THEN st.w
                           ELSE CallListener(events[id], st.w,
                                             Offset(location, NEIGHBOR_OFFSETS[i])),
                     log |-> st.log \cup {<<id, i, threw>>}]
       IN IF threw THEN after
          ELSE triggerEventsNoCatch(events, Tail(ids), after, location, i, throwing)

\* BlockUpdate.#triggerForAllListeners for offset i: every callback in its
\* own try/catch; throwing holds the <<id, i>> whose call throws
RECURSIVE triggerForAllListeners(_, _, _, _, _, _)
triggerForAllListeners(events, ids, st, location, i, throwing) ==
  IF ids = <<>> THEN st
  ELSE LET id == Head(ids)
           threw == <<id, i>> \in throwing
           after == [w |-> IF threw THEN st.w
                           ELSE CallListener(events[id], st.w,
                                             Offset(location, NEIGHBOR_OFFSETS[i])),
                     log |-> st.log \cup {<<id, i, threw>>}]
       IN triggerForAllListeners(events, Tail(ids), after, location, i, throwing)

\* the loop over NEIGHBOR_OFFSETS of trigger and triggerForNeighborsAt
RECURSIVE DeliverFrom(_, _, _, _, _)
DeliverFrom(events, st, location, i, throwing) ==
  IF i > Len(NEIGHBOR_OFFSETS) THEN st
  ELSE DeliverFrom(events,
                   IF Resolve(st.w, Offset(location, NEIGHBOR_OFFSETS[i])) = Undefined
                   THEN st
                   ELSE triggerForAllListeners(events, EventIds(events), st,
                                               location, i, throwing),
                   location, i + 1, throwing)

\* BlockUpdate.triggerForNeighborsAt with the listeners of events
triggerForNeighborsAtAll(events, w, location, throwing) ==
  DeliverFrom(events, [w |-> w, log |-> {}], location, 1, throwing)

\* BlockUpdate.trigger with the listeners of events
triggerAll(events, w, sourceBlock, throwing) ==
  IF Resolve(w, sourceBlock) = Undefined THEN [w |-> w, log |-> {}]
  ELSE DeliverFrom(events, [w |-> w, log |-> {}], sourceBlock, 1, throwing)

\* ------------------------------------------------------------------------
\* Place and pickup
\* ------------------------------------------------------------------------
\* placeFluidWithBucket, from the target block on (lines 311-330);
\* fluidTypeId is the bucket's item id without its _bucket suffix
placeFluidWithBucketNoAdd(w, fluidTypeId, targetBlock) ==
  IF Resolve(w, targetBlock) # Undefined /\ IsAir(Resolve(w, targetBlock))
  THEN IF fluidTypeId \notin FluidRegistry THEN w
       ELSE ActiveAdd(SetBlock(w, targetBlock,
                               [DefaultPermutation(fluidTypeId) EXCEPT
                                  !.depth = MAX_SPREAD_DISTANCE]), targetBlock)
  ELSE w

placeFluidWithBucketAnyTarget(w, fluidTypeId, targetBlock) ==
  IF Resolve(w, targetBlock) # Undefined
  THEN IF fluidTypeId \notin FluidRegistry THEN w
       ELSE LET sourcePermutation ==
                  [DefaultPermutation(fluidTypeId) EXCEPT
                     !.depth = MAX_SPREAD_DISTANCE, !.direction = "none"]
            IN add(ActiveAdd(SetBlock(w, targetBlock, sourcePermutation), targetBlock),
                   fluidTypeId, targetBlock)
  ELSE w

placeFluidWithBucket(w, fluidTypeId, targetBlock) ==
  IF Resolve(w, targetBlock) # Undefined /\ IsAir(Resolve(w, targetBlock))
  THEN IF fluidTypeId \notin FluidRegistry THEN w
       ELSE LET sourcePermutation ==
                  [DefaultPermutation(fluidTypeId) EXCEPT
                     !.depth = MAX_SPREAD_DISTANCE, !.direction = "none"]
            IN add(ActiveAdd(SetBlock(w, targetBlock, sourcePermutation), targetBlock),
                   fluidTypeId, targetBlock)
  ELSE w

\* the check of the interaction handler before it defers the pickup
\* (lines 369-373)
PickupAccepted(w, p) ==
  LET block == Resolve(w, p)
  IN block # Undefined /\ HasFluidTag(block) /\ block.depth = MAX_SPREAD_DISTANCE

\* the deferred pickup (lines 374-385): the `${typeId}_bucket` item exists
\* for the fluid blocks only, the ItemStack constructor throws for any other
\* type and the callback ends there
PickupRunNoTrigger(w, p) ==
  LET block == Resolve(w, p)
  IN IF block = Undefined \/ ~HasFluidTag(block) THEN w
     ELSE SetBlock(ActiveDelete(w, p), p, AirBlock)

PickupRun(w, p) ==
  LET block == Resolve(w, p)
  IN IF block = Undefined \/ ~HasFluidTag(block) THEN w
     ELSE triggerForNeighborsAt(SetBlock(ActiveDelete(w, p), p, AirBlock), p)

\* ------------------------------------------------------------------------
\* State
\* ------------------------------------------------------------------------
VARIABLES
  grid,               \* the blocks of the modelled region
  unloaded,           \* the x columns whose chunk is not loaded
  queue,              \* Queues[f].#queue
  activeFluidBlocks,  \* activeFluidBlocks
  updatesPerInterval, \* the argument of FluidQueue.run
  draining,           \* the fluid whose interval callback is running, or "none"
  itemsToProcess,     \* what is left of itemsToProcess in that callback
  runQueue,           \* the callbacks handed to system.run, not yet run
  external,           \* number of external events so far
  op,                 \* the last step: its name, the cell, the rule applied,
                      \* whether it added a coordinate that was pending already
  pendingAtStart,     \* history: the size of the queue when the running drain began
  batch,              \* history: the snapshot the running drain took
  calls,              \* history: the keys the running drain passed to the callback
  owed,               \* history: per fluid, the keys added during its last drain
  due,                \* history: owed[f] at the start of the running drain of f
  actors,             \* the entities of the world: cell, validity, flight tag
  entitiesInFluid,    \* entitiesInFluid of the tick loop
  exitLog,            \* history: the exit commands the last tick loop cycle ran
  effectLog,          \* history: per entity and effect key, how often the last
                      \* cycle called the handler, applied the effect, logged
                      \* an error
  Events,             \* Events of BlockUpdate: listener id -> callback
  lastEventId,        \* lastEventId of BlockUpdate
  delivered           \* history: the callback calls of the last trigger, as
                      \* <<listener id, index of the offset, threw>>

vars == <<grid, unloaded, queue, activeFluidBlocks, updatesPerInterval, draining,
          itemsToProcess, runQueue, external, op, pendingAtStart, batch, calls, owed,
          due, actors, entitiesInFluid, exitLog, effectLog,
                 Events, lastEventId, delivered>>

W == [grid |-> grid, unloaded |-> unloaded, queue |-> queue,
      active |-> activeFluidBlocks]

Apply(w) ==
  /\ grid' = w.grid
  /\ queue' = w.queue
  /\ activeFluidBlocks' = w.active

NoPos == <<0, -1, 0>>

\* the entities: a player in creative mode and a mob; nobody has joined yet
ActorIds == {"player", "mob"}
NoActor ==
  [cell |-> NoPos, valid |-> FALSE, tag |-> FALSE, joining |-> FALSE,
   creative |-> FALSE, health |-> FALSE]
IsPlayer(a) == a = "player"

\* entity.getComponent("health"): players and creatures have the component,
\* other entities (items, projectiles) have not
HasHealth(a) == IsPlayer(a) \/ actors[a].health
OpR(name, p, rule, readd) == [name |-> name, pos |-> p, rule |-> rule, readd |-> readd]
Op(name, p, rule) == OpR(name, p, rule, FALSE)

\* ------------------------------------------------------------------------
\* The catalog and the effect handlers
\* ------------------------------------------------------------------------
\* the keys getRegistryScript writes into an entry, in the order it writes
\* them (the order for...in visits them)
CatalogKeys ==
  <<"damage", "fog", "buoyancy", "tick_delay", "boat", "burnTime", "effect">>

\* registry.js: acid damages and does not burn, oil burns, poisons and
\* does no damage
FluidData(f) ==
  IF f = "lumstudio:acid"
  THEN [damage |-> 2, fog |-> "7cfc00", buoyancy |-> 0, tick_delay |-> 5,
        boat |-> FALSE, burnTime |-> 0]
  ELSE [damage |-> 0, fog |-> "1a1a1a", buoyancy |-> 0, tick_delay |-> 5,
        boat |-> FALSE, burnTime |-> 5, effect |-> "poison"]

\* the keys of an entry in for...in order
KeysOf(fluidData) == SelectSeq(CatalogKeys, LAMBDA k : k \in DOMAIN fluidData)

\* effects/index.js: the keys effectHandlers has a handler for
HandlerKeys == {"damage", "burnTime", "effect"}

\* the handlers without the test of the catalog value
HandlerAppliesNoThreshold(key, a, fluidData) == HasHealth(a)

\* the condition under which the handler of a key applies its effect:
\* effects/damage.js, effects/burn.js, effects/statusEffect.js
HandlerApplies(key, a, fluidData) ==
  CASE key = "damage" -> fluidData.damage > 0 /\ HasHealth(a)
    [] key = "burnTime" -> fluidData.burnTime > 0 /\ HasHealth(a)
    [] key = "effect" -> fluidData.effect # "" /\ HasHealth(a)

NoCount == [called |-> 0, applied |-> 0, errors |-> 0]
NoEffects == [x \in ActorIds \X HandlerKeys |-> NoCount]
NoHandlerLog ==
  [called |-> [k \in HandlerKeys |-> 0], applied |-> [k \in HandlerKeys |-> 0],
   errors |-> [k \in HandlerKeys |-> 0]]

\* one call of a handler inside its try block: the call is counted, then
\* the handler throws (the catch logs the error) or applies its effect
CallHandler(key, a, fluidData, throwing, log) ==
  LET called == [log EXCEPT !.called[key] = @ + 1]
  IN IF <<a, key>> \in throwing
     THEN [called EXCEPT !.errors[key] = @ + 1]
     ELSE IF HandlerApplies(key, a, fluidData)
          THEN [called EXCEPT !.applied[key] = @ + 1]
          ELSE called

\* lines 561-570 with no try around the call: the first handler that throws
\* ends the loop
RECURSIVE GeneralEffectsNoCatch(_, _, _, _, _)
GeneralEffectsNoCatch(keys, a, fluidData, throwing, log) ==
  IF keys = <<>> THEN log
  ELSE IF Head(keys) \notin HandlerKeys
       THEN GeneralEffectsNoCatch(Tail(keys), a, fluidData, throwing, log)
       ELSE IF <<a, Head(keys)>> \in throwing
            THEN CallHandler(Head(keys), a, fluidData, throwing, log)
            ELSE GeneralEffectsNoCatch(Tail(keys), a, fluidData, throwing,
                   CallHandler(Head(keys), a, fluidData, throwing, log))

\* lines 561-570: for each key of the entry that has a handler, call it
RECURSIVE GeneralEffects(_, _, _, _, _)
GeneralEffects(keys, a, fluidData, throwing, log) ==
  IF keys = <<>> THEN log
  ELSE IF Head(keys) \notin HandlerKeys
       THEN GeneralEffects(Tail(keys), a, fluidData, throwing, log)
       ELSE GeneralEffects(Tail(keys), a, fluidData, throwing,
                           CallHandler(Head(keys), a, fluidData, throwing, log))

\* ------------------------------------------------------------------------
\* Steps
\* ------------------------------------------------------------------------
Idle == draining = "none"
DrainVarsUnchanged ==
  UNCHANGED <<draining, itemsToProcess, pendingAtStart, batch, calls, owed, due>>

ActorVarsUnchanged == UNCHANGED <<actors, entitiesInFluid, exitLog, effectLog,
                 Events, lastEventId, delivered>>

Min(a, b) == IF a < b THEN a ELSE b

\* ------------------------------------------------------------------------
\* Worlds
\* ------------------------------------------------------------------------
\* the small world: columns 0..MaxX, two layers, one block deep; the upper
\* layer is air, the lower layer stone, but for the last column in the
\* world with a pit
SmallPos == {<<x, y, 0>> : x \in 0..MaxX, y \in 0..1}
SmallWorlds ==
  {[p \in SmallPos |-> IF p[2] = 0 /\ p[1] \notin pit THEN StoneBlock ELSE AirBlock] :
     pit \in {{}, {MaxX}}}

\* the floor: one layer of air over stone, FloorRadius cells each way
FloorPos == {<<x, 0, z>> : x \in (0 - FloorRadius)..FloorRadius,
                           z \in (0 - FloorRadius)..FloorRadius}
FloorWorld == [p \in FloorPos |-> AirBlock]

\* BlockUpdate after initialize: the callback of fluids.js is the only
\* listener, under the id 0
InitBlockUpdate ==
  /\ Events = (0 :> "fluid")
  /\ lastEventId = 0
  /\ delivered = {}

InitCommon ==
  /\ unloaded = {}
  /\ queue = [f \in FluidRegistry |-> <<>>]
  /\ activeFluidBlocks = {}
  /\ draining = "none"
  /\ itemsToProcess = <<>>
  /\ runQueue = <<>>
  /\ external = 0
  /\ op = Op("init", NoPos, "none")
  /\ pendingAtStart = 0
  /\ batch = <<>>
  /\ calls = <<>>
  /\ owed = [f \in FluidRegistry |-> {}]
  /\ due = {}
  /\ actors = [a \in ActorIds |-> NoActor]
  /\ entitiesInFluid = {}
  /\ exitLog = {}
  /\ effectLog = NoEffects
  /\ InitBlockUpdate

\* initialize() runs every queue with UPDATES_PER_TICK
Init ==
  /\ grid \in SmallWorlds
  /\ updatesPerInterval = UPDATES_PER_TICK
  /\ InitCommon

\* ------------------------------------------------------------------------
\* The drain: the interval callback of FluidQueue.run
\* ------------------------------------------------------------------------
TakeAll(q, n) == q
Take(q, n) == SubSeq(q, 1, Min(Len(q), n))

\* lines 55-62: nothing to do on an empty queue; else snapshot and clear
DrainBegin(f) ==
  /\ Idle
  /\ Len(queue[f]) # 0
  /\ draining' = f
  /\ itemsToProcess' = Take(queue[f], updatesPerInterval)
  /\ queue' = [queue EXCEPT ![f] = <<>>]
  /\ pendingAtStart' = Len(queue[f])
  /\ batch' = itemsToProcess'
  /\ calls' = <<>>
  /\ due' = owed[f]
  /\ owed' = [owed EXCEPT ![f] = {}]
  /\ op' = Op("drainBegin", NoPos, "none")
  /\ UNCHANGED <<grid, unloaded, activeFluidBlocks, updatesPerInterval, runQueue,
                 external>>
  /\ ActorVarsUnchanged

\* line 74
StillFluidAnyType(w, p, f) == Resolve(w, p) # Undefined
StillFluid(w, p, f) == Resolve(w, p) # Undefined /\ Resolve(w, p).typeId = f

\* the loop of run with no try in it: an error of the callback ends the loop
AfterItemNoCatch(items, threw) == IF threw THEN <<>> ELSE Tail(items)

\* lines 64-80: the try / catch is inside the loop, the loop goes on with
\* the next coordinate whether the callback returned or threw
AfterItem(items, threw) == Tail(items)

\* block.below() of a block of the lowest layer gives undefined or throws
\* LocationOutOfWorldBoundariesError: with early, line 211 throws before
\* anything is written
ThrowsAtBelow(w, p, early) ==
  /\ early
  /\ Resolve(w, p).typeId \in FluidRegistry
  /\ Resolve(w, Below(p)) = Undefined

\* lines 64-80, one iteration
DrainStep ==
  /\ ~Idle
  /\ itemsToProcess # <<>>
  /\ \E early \in BOOLEAN :
       LET locationString == Head(itemsToProcess)
           location == KeyLocation(locationString)
           invoked == StillFluid(W, location, draining)
           threwEarly == invoked /\ ThrowsAtBelow(W, location, early)
           w == IF invoked /\ ~threwEarly THEN fluidUpdate(W, location) ELSE W
           rule == IF ~invoked THEN "none"
                   ELSE IF threwEarly THEN "throw"
                   ELSE UpdateRule(W, location)
       IN /\ Apply(w)
          /\ calls' = IF invoked THEN Append(calls, locationString) ELSE calls
          /\ owed' = [owed EXCEPT ![draining] =
                        @ \cup (SeqRange(w.queue[draining]) \ SeqRange(queue[draining]))]
          /\ op' = Op(IF invoked THEN "fluidUpdate" ELSE "skip", location, rule)
          /\ itemsToProcess' = AfterItem(itemsToProcess, rule = "throw")
  /\ UNCHANGED <<unloaded, updatesPerInterval, draining, runQueue, external,
                 pendingAtStart, batch, due>>
  /\ ActorVarsUnchanged

\* the callback returns
DrainEnd ==
  /\ ~Idle
  /\ itemsToProcess = <<>>
  /\ draining' = "none"
  /\ pendingAtStart' = 0
  /\ batch' = <<>>
  /\ calls' = <<>>
  /\ due' = {}
  /\ op' = Op("drainEnd", NoPos, "none")
  /\ UNCHANGED <<grid, unloaded, queue, activeFluidBlocks, updatesPerInterval,
                 itemsToProcess, runQueue, external, owed>>
  /\ ActorVarsUnchanged

\* ------------------------------------------------------------------------
\* The interaction handler and system.run
\* ------------------------------------------------------------------------
\* playerInteractWithBlock with a fluid bucket (lines 360-366): the placement
\* is deferred; targetBlock is the block at the clicked face
InteractWithBucket(fluidTypeId, targetBlock) ==
  /\ Idle
  /\ external < MaxExternal
  /\ Len(runQueue) < MaxDeferred
  /\ runQueue' = Append(runQueue, [kind |-> "place", fluid |-> fluidTypeId,
                                   pos |-> targetBlock])
  /\ external' = external + 1
  /\ op' = Op("interact", NoPos, "none")
  /\ UNCHANGED <<grid, unloaded, queue, activeFluidBlocks, updatesPerInterval>>
  /\ DrainVarsUnchanged
  /\ ActorVarsUnchanged

\* playerInteractWithBlock with an empty bucket (lines 369-388)
InteractWithEmptyBucket(p) ==
  /\ Idle
  /\ external < MaxExternal
  /\ Len(runQueue) < MaxDeferred
  /\ runQueue' = IF PickupAccepted(W, p)
                 THEN Append(runQueue, [kind |-> "pickup", fluid |-> "none", pos |-> p])
                 ELSE runQueue
  /\ external' = external + 1
  /\ op' = Op("interact", NoPos,
              IF PickupAccepted(W, p) THEN "accepted"
              ELSE IF Resolve(W, p) # Undefined /\ HasFluidTag(Resolve(W, p))
                   THEN "refused" ELSE "none")
  /\ UNCHANGED <<grid, unloaded, queue, activeFluidBlocks, updatesPerInterval>>
  /\ DrainVarsUnchanged
  /\ ActorVarsUnchanged

\* the next tick runs the oldest deferred callback
SystemRun ==
  /\ Idle
  /\ runQueue # <<>>
  /\ LET task == Head(runQueue)
     IN /\ Apply(IF task.kind = "place"
                 THEN placeFluidWithBucket(W, task.fluid, task.pos)
                 ELSE PickupRun(W, task.pos))
        /\ op' = OpR(task.kind, task.pos,
                     IF grid' # grid THEN "done" ELSE "none",
                     /\ grid' # grid
                     /\ IF task.kind = "place"
                        THEN getBlockLocationString(task.pos) \in SeqRange(queue[task.fluid])
                        ELSE ListenerReAdds(W, task.pos))
  /\ runQueue' = Tail(runQueue)
  /\ UNCHANGED <<unloaded, updatesPerInterval, external>>
  /\ DrainVarsUnchanged
  /\ ActorVarsUnchanged

\* ------------------------------------------------------------------------
\* The world outside the engine
\* ------------------------------------------------------------------------
\* a player places a stone block into an air cell: playerPlaceBlock ->
\* easyTrigger -> BlockUpdate.trigger
PlayerPlaceBlock(p) ==
  /\ Idle
  /\ external < MaxExternal
  /\ Resolve(W, p) # Undefined /\ IsAir(Resolve(W, p))
  /\ Apply(trigger(SetBlock(W, p, StoneBlock), p))
  /\ external' = external + 1
  /\ op' = OpR("playerPlaceBlock", NoPos, "none", ListenerReAdds(W, p))
  /\ UNCHANGED <<unloaded, updatesPerInterval, runQueue>>
  /\ DrainVarsUnchanged
  /\ ActorVarsUnchanged

\* a player breaks a stone block: playerBreakBlock -> triggerForNeighborsAt
PlayerBreakBlock(p) ==
  /\ Idle
  /\ external < MaxExternal
  /\ Resolve(W, p) = StoneBlock
  /\ Apply(triggerForNeighborsAt(SetBlock(W, p, AirBlock), p))
  /\ external' = external + 1
  /\ op' = OpR("playerBreakBlock", NoPos, "none", ListenerReAdds(W, p))
  /\ UNCHANGED <<unloaded, updatesPerInterval, runQueue>>
  /\ DrainVarsUnchanged
  /\ ActorVarsUnchanged

\* the blocks a command (/setblock) writes, with no event for the scripts
CommandBlocks ==
  {AirBlock, StoneBlock} \cup {DefaultPermutation(t) : t \in FluidRegistry}

CommandSetBlock(p, b) ==
  /\ Idle
  /\ external < MaxExternal
  /\ Resolve(W, p) # Undefined /\ Resolve(W, p) # b
  /\ grid' = [grid EXCEPT ![p] = b]
  /\ external' = external + 1
  /\ op' = Op("command", NoPos, "none")
  /\ UNCHANGED <<unloaded, queue, activeFluidBlocks, updatesPerInterval, runQueue>>
  /\ DrainVarsUnchanged
  /\ ActorVarsUnchanged

\* the chunk of column x is unloaded, or loaded again
ChunkToggle(x) ==
  /\ Idle
  /\ external < MaxExternal
  /\ unloaded' = IF x \in unloaded THEN unloaded \ {x} ELSE unloaded \cup {x}
  /\ external' = external + 1
  /\ op' = Op("chunk", NoPos, "none")
  /\ UNCHANGED <<grid, queue, activeFluidBlocks, updatesPerInterval, runQueue>>
  /\ DrainVarsUnchanged
  /\ ActorVarsUnchanged

\* the engine and the players: queues, bucket interactions, placed and
\* broken blocks
EngineNext ==
  \/ \E f \in FluidRegistry : DrainBegin(f)
  \/ DrainStep
  \/ DrainEnd
  \/ \E t \in FluidTagged, p \in DOMAIN grid : InteractWithBucket(t, p)
  \/ \E p \in DOMAIN grid : InteractWithEmptyBucket(p)
  \/ SystemRun
  \/ \E p \in DOMAIN grid : PlayerPlaceBlock(p)
  \/ \E p \in DOMAIN grid : PlayerBreakBlock(p)

\* ... and the changes that reach no script: commands, chunks unloading
Next ==
  \/ EngineNext
  \/ \E p \in DOMAIN grid, b \in CommandBlocks : CommandSetBlock(p, b)
  \/ ChunkToggle(MaxX)

\* the system as initialize() starts it
Spec == Init /\ [][Next]_vars

\* the same with no command and no chunk unloading: fluid cells are made and
\* removed by place, pickup and fluidUpdate only
SpecEngine == Init /\ [][EngineNext]_vars

\* a world that holds a block with the fluid tag whose type has no
\* FluidRegistry entry, as a flowing block or as a full one
UnregisteredCell == <<1, 1, 0>>
UnregisteredBlock(d) == MkBlock(UnregisteredFluid, d, "none", DefaultInv)

InitUnregistered ==
  /\ grid \in {[g EXCEPT ![UnregisteredCell] = UnregisteredBlock(d)] :
                 g \in SmallWorlds, d \in {1, MAX_SPREAD_DISTANCE}}
  /\ updatesPerInterval = UPDATES_PER_TICK
  /\ InitCommon

SpecUnregistered == InitUnregistered /\ [][EngineNext]_vars

\* the lowest layer of the world: a row of air cells with nothing below,
\* fluids are placed and picked up with buckets
BottomPos == {<<x, MinY, 0>> : x \in 0..MaxX}
BottomWorld == [p \in BottomPos |-> AirBlock]

InitBottom ==
  /\ grid = BottomWorld
  /\ updatesPerInterval = UPDATES_PER_TICK
  /\ InitCommon

BottomNext ==
  \/ \E f \in FluidRegistry : DrainBegin(f)
  \/ DrainStep
  \/ DrainEnd
  \/ \E f \in FluidRegistry, p \in BottomPos : InteractWithBucket(f, p)
  \/ \E p \in BottomPos : InteractWithEmptyBucket(p)
  \/ SystemRun

SpecBottom == InitBottom /\ [][BottomNext]_vars

\* a FluidQueue run with a small updatesPerInterval
InitQueue ==
  /\ grid \in SmallWorlds
  /\ updatesPerInterval \in 1..SmallBatch
  /\ InitCommon

SpecQueue == InitQueue /\ [][Next]_vars

\* one source placed in the middle of the floor, and nothing else from outside
Centre == <<0, 0, 0>>

InitFloor ==
  /\ grid = FloorWorld
  /\ updatesPerInterval = UPDATES_PER_TICK
  /\ InitCommon

FloorPlace(f) == external = 0 /\ InteractWithBucket(f, Centre)

FloorNext ==
  \/ \E f \in FluidRegistry : FloorPlace(f)
  \/ SystemRun
  \/ \E f \in FluidRegistry : DrainBegin(f)
  \/ DrainStep
  \/ DrainEnd

\* system.run callbacks run on the next tick, every interval callback runs
\* again after its tick delay, and a running callback runs to its end
\* WF_vars(DrainStep) with its ENABLED written out: a step of a running
\* callback always shortens itemsToProcess, so it is enabled exactly when a
\* callback runs and items are left
DrainStepEnabled == ~Idle /\ itemsToProcess # <<>>
DrainStepFair == []<>(~DrainStepEnabled) \/ []<><<DrainStep>>_vars

FloorFairness ==
  /\ WF_vars(SystemRun)
  /\ \A f \in FluidRegistry : WF_vars(DrainBegin(f))
  /\ DrainStepFair
  /\ WF_vars(DrainEnd)

SpecFloor == InitFloor /\ [][FloorNext]_vars /\ FloorFairness

\* the channel: one row of air, ChannelLen cells after the first, stone on
\* every side; a source is placed at one of its ends and picked up once the
\* stream fills the channel
ChannelPos == {<<x, 0, 0>> : x \in 0..ChannelLen}
ChannelWorld == [p \in ChannelPos |-> AirBlock]
ChannelEnds == {<<0, 0, 0>>, <<ChannelLen, 0, 0>>}
StreamCell(e, d) == <<IF e[1] = 0 THEN d ELSE ChannelLen - d, 0, 0>>

StreamFormed(e) ==
  /\ grid[e].typeId \in FluidRegistry
  /\ grid[e].depth = MAX_SPREAD_DISTANCE
  /\ \A d \in 1..ChannelLen :
       /\ grid[StreamCell(e, d)].typeId = grid[e].typeId
       /\ grid[StreamCell(e, d)].depth = MAX_SPREAD_DISTANCE - d

InitChannel ==
  /\ grid = ChannelWorld
  /\ updatesPerInterval = UPDATES_PER_TICK
  /\ InitCommon

ChannelPlace(f, e) == external = 0 /\ InteractWithBucket(f, e)
ChannelPickup(e) == StreamFormed(e) /\ InteractWithEmptyBucket(e)

ChannelNext ==
  \/ \E f \in FluidRegistry, e \in ChannelEnds : ChannelPlace(f, e)
  \/ \E e \in ChannelEnds : ChannelPickup(e)
  \/ SystemRun
  \/ \E f \in FluidRegistry : DrainBegin(f)
  \/ DrainStep
  \/ DrainEnd

SpecChannel == InitChannel /\ [][ChannelNext]_vars

\* ------------------------------------------------------------------------
\* The tick loop of initialize (entities in fluids) and the entities
\* ------------------------------------------------------------------------
\* dimension.getEntities({ location, maxDistance: 2 }) for the corner of a
\* block: an entity stands in the middle of its cell with its feet on the
\* bottom of it; squared distance in half blocks
NearEntity(location, cell) ==
  LET dx == 2 * cell[1] + 1 - 2 * location[1]
      dy == 2 * cell[2] - 2 * location[2]
      dz == 2 * cell[3] + 1 - 2 * location[3]
  IN dx * dx + dy * dy + dz * dz <= 16

\* bodyBlock && FluidRegistry[bodyBlock.typeId]
BodyInFluid(a) ==
  LET bodyBlock == Resolve(W, actors[a].cell)
  IN bodyBlock # Undefined /\ bodyBlock.typeId \in FluidRegistry

\* section C: the entities near a tracked coordinate whose body block is a
\* registered fluid
entitiesFoundThisTick ==
  {a \in ActorIds :
     /\ actors[a].valid
     /\ \E k \in activeFluidBlocks : NearEntity(KeyLocation(k), actors[a].cell)
     /\ BodyInFluid(a)}

\* the fluid data of the block the entity is in (lines 520-521)
FluidDataOf(a) == FluidData(Resolve(W, actors[a].cell).typeId)

\* what section D4 did with the effect handlers for the entities it found
\* in a fluid; throwing holds the <<entity, key>> pairs whose handler throws
\* in this cycle
EffectsOf(inside, throwing) ==
  [x \in ActorIds \X HandlerKeys |->
     IF x[1] \in inside
     THEN LET log == GeneralEffects(KeysOf(FluidDataOf(x[1])), x[1],
                                    FluidDataOf(x[1]), throwing, NoHandlerLog)
          IN [called |-> log.called[x[2]], applied |-> log.applied[x[2]],
              errors |-> log.errors[x[2]]]
     ELSE NoCount]

\* one run of the interval callback (sections A, C, D, E); exitLog is what
\* section D ran for the entities that left: "fog" for the fog removal,
\* "mayfly" for the flight restore
TickLoopThrowing(throwing) ==
  /\ Idle
  /\ LET existing == {a \in entitiesInFluid : actors[a].valid}
         tracked == existing \cup entitiesFoundThisTick
         left == tracked \ entitiesFoundThisTick
         decayed == {a \in entitiesFoundThisTick : ~BodyInFluid(a)}
         inside == entitiesFoundThisTick \ decayed
     IN /\ exitLog' = {<<a, "fog">> : a \in {b \in left \cup decayed : IsPlayer(b)}}
                         \cup {<<a, "mayfly">> :
                                 a \in {b \in left : IsPlayer(b) /\ actors[b].tag}}
        /\ actors' = [a \in ActorIds |->
                        IF a \in left /\ IsPlayer(a)
                        THEN [actors[a] EXCEPT !.tag = FALSE]
                        ELSE IF a \in inside /\ IsPlayer(a) /\ actors[a].creative
                        THEN [actors[a] EXCEPT !.tag = TRUE]
                        ELSE actors[a]]
        /\ entitiesInFluid' = inside
        /\ effectLog' = EffectsOf(inside, throwing)
        /\ UNCHANGED <<Events, lastEventId, delivered>>
  /\ op' = Op("tick", NoPos, "none")
  /\ UNCHANGED <<grid, unloaded, queue, activeFluidBlocks, updatesPerInterval,
                 runQueue, external>>
  /\ DrainVarsUnchanged

\* a cycle in which no effect handler throws
TickLoop == TickLoopThrowing({})

\* the playerJoin handler (lines 397-406), once its timeout has passed
JoinTimeout(a) ==
  /\ Idle
  /\ actors[a].valid
  /\ actors[a].joining
  /\ actors' = [actors EXCEPT ![a].joining = FALSE, ![a].tag = FALSE]
  /\ op' = Op("joinTimeout", NoPos, "none")
  /\ UNCHANGED <<grid, unloaded, queue, activeFluidBlocks, updatesPerInterval,
                 runQueue, external, entitiesInFluid, exitLog, effectLog,
                 Events, lastEventId, delivered>>
  /\ DrainVarsUnchanged

\* an entity can be in a cell that is not solid
Passable(c) == Resolve(W, c) # Undefined /\ Resolve(W, c) # StoneBlock

\* a player joins or a mob spawns in cell c
ActorJoin(a, c) ==
  /\ Idle
  /\ external < MaxExternal
  /\ ~actors[a].valid
  /\ Passable(c)
  /\ actors' = [actors EXCEPT ![a].valid = TRUE, ![a].cell = c,
                               ![a].joining = IsPlayer(a)]
  /\ external' = external + 1
  /\ op' = Op("join", NoPos, "none")
  /\ UNCHANGED <<grid, unloaded, queue, activeFluidBlocks, updatesPerInterval,
                 runQueue, entitiesInFluid, exitLog, effectLog,
                 Events, lastEventId, delivered>>
  /\ DrainVarsUnchanged

\* a player leaves the game or a mob is removed
ActorLeave(a) ==
  /\ Idle
  /\ external < MaxExternal
  /\ actors[a].valid
  /\ actors' = [actors EXCEPT ![a].valid = FALSE, ![a].joining = FALSE]
  /\ external' = external + 1
  /\ op' = Op("leave", NoPos, "none")
  /\ UNCHANGED <<grid, unloaded, queue, activeFluidBlocks, updatesPerInterval,
                 runQueue, entitiesInFluid, exitLog, effectLog,
                 Events, lastEventId, delivered>>
  /\ DrainVarsUnchanged

\* an entity moves to cell c
ActorMove(a, c) ==
  /\ Idle
  /\ external < MaxExternal
  /\ actors[a].valid
  /\ actors[a].cell # c
  /\ Passable(c)
  /\ actors' = [actors EXCEPT ![a].cell = c]
  /\ external' = external + 1
  /\ op' = Op("move", NoPos, "none")
  /\ UNCHANGED <<grid, unloaded, queue, activeFluidBlocks, updatesPerInterval,
                 runQueue, entitiesInFluid, exitLog, effectLog,
                 Events, lastEventId, delivered>>
  /\ DrainVarsUnchanged

ActorCells == {p \in SmallPos : p[2] = 1}
ActorFluid == CHOOSE f \in FluidRegistry : TRUE

\* the flat small world when the scripts start: the last cell of the upper
\* layer is air or holds a source left there before the scripts were loaded
\* (activeFluidBlocks and the queues start empty whatever the world holds)
ActorWorlds ==
  {[p \in SmallPos |->
      IF p[2] = 0 THEN StoneBlock
      ELSE IF p[1] = MaxX THEN b
      ELSE AirBlock] :
     b \in {AirBlock, [DefaultPermutation(ActorFluid) EXCEPT !.depth = MAX_SPREAD_DISTANCE]}}

\* the world with entities: fluids are placed and picked up with buckets
\* and updated by the queues, entities come, move and go
InitActors ==
  /\ grid \in ActorWorlds
  /\ updatesPerInterval = UPDATES_PER_TICK
  /\ unloaded = {}
  /\ queue = [f \in FluidRegistry |-> <<>>]
  /\ activeFluidBlocks = {}
  /\ draining = "none"
  /\ itemsToProcess = <<>>
  /\ runQueue = <<>>
  /\ external = 0
  /\ op = Op("init", NoPos, "none")
  /\ pendingAtStart = 0
  /\ batch = <<>>
  /\ calls = <<>>
  /\ owed = [f \in FluidRegistry |-> {}]
  /\ due = {}
  /\ actors \in
       {[a \in ActorIds |->
           IF IsPlayer(a) THEN [f[a] EXCEPT !.creative = g] ELSE f[a]] :
          f \in [ActorIds ->
                   {NoActor} \cup {[NoActor EXCEPT !.valid = TRUE, !.cell = c] :
                                     c \in ActorCells}],
          g \in BOOLEAN}
  /\ entitiesInFluid = {}
  /\ exitLog = {}
  /\ effectLog = NoEffects
  /\ InitBlockUpdate


ActorEngineNext ==
  \/ \E f \in FluidRegistry : DrainBegin(f)
  \/ DrainStep
  \/ DrainEnd
  \/ \E p \in ActorCells : InteractWithBucket(ActorFluid, p)
  \/ \E p \in ActorCells : InteractWithEmptyBucket(p)
  \/ SystemRun
  \/ TickLoop
  \/ \E a \in ActorIds : JoinTimeout(a)
  \/ \E a \in ActorIds, c \in ActorCells : ActorJoin(a, c)
  \/ \E a \in ActorIds : ActorLeave(a)
  \/ \E a \in ActorIds, c \in ActorCells : ActorMove(a, c)

\* ... and with /setblock commands
ActorNext ==
  \/ ActorEngineNext
  \/ \E p \in ActorCells, b \in {AirBlock, DefaultPermutation(ActorFluid)} :
       CommandSetBlock(p, b)

SpecActors == InitActors /\ [][ActorNext]_vars

\* the effects of the fluids: a player and a mob (a creature, or an entity
\* with no health component) stand on the flat floor, both fluids are placed
\* with buckets, and any of the effect handlers may throw in a cycle
EffectWorld == [p \in SmallPos |-> IF p[2] = 0 THEN StoneBlock ELSE AirBlock]

\* the cells the entities stand in and the buckets are emptied into
EffectCells == {<<0, 1, 0>>, <<1, 1, 0>>}

InitEffects ==
  /\ grid = EffectWorld
  /\ updatesPerInterval = UPDATES_PER_TICK
  /\ unloaded = {}
  /\ queue = [f \in FluidRegistry |-> <<>>]
  /\ activeFluidBlocks = {}
  /\ draining = "none"
  /\ itemsToProcess = <<>>
  /\ runQueue = <<>>
  /\ external = 0
  /\ op = Op("init", NoPos, "none")
  /\ pendingAtStart = 0
  /\ batch = <<>>
  /\ calls = <<>>
  /\ owed = [f \in FluidRegistry |-> {}]
  /\ due = {}
  /\ actors \in
       {[a \in ActorIds |->
           [NoActor EXCEPT !.valid = TRUE, !.cell = c[a],
                           !.health = IsPlayer(a) \/ h]] :
          c \in [ActorIds -> EffectCells], h \in BOOLEAN}
  /\ entitiesInFluid = {}
  /\ exitLog = {}
  /\ effectLog = NoEffects
  /\ InitBlockUpdate

\* in a cycle no handler throws, or one handler throws for one entity
ThrowSets == {{}} \cup {{x} : x \in ActorIds \X HandlerKeys}

EffectNext ==
  \/ \E f \in FluidRegistry : DrainBegin(f)
  \/ DrainStep
  \/ DrainEnd
  \/ \E f \in FluidRegistry, p \in EffectCells : InteractWithBucket(f, p)
  \/ SystemRun
  \/ \E throwing \in ThrowSets : TickLoopThrowing(throwing)

SpecEffects == InitEffects /\ [][EffectNext]_vars

\* the neighbourhood of one fluid cell: the cell with any depth, each
\* horizontal neighbour solid or the same fluid with one of FlagDepths, the
\* cells above and below solid or the same fluid; the cell is pending after
\* a block update next to it
FlagCentre == <<0, 1, 0>>
FlagFluid == CHOOSE f \in FluidRegistry : TRUE
FlagDepths == {1, 5, 6, 7, 8}
FlagPos == {FlagCentre, Above(FlagCentre), Below(FlagCentre)}
             \cup {DirOffset(FlagCentre, HORIZONTAL_DIRECTIONS[i]) : i \in 1..4}
FlagBlock(d) == [DefaultPermutation(FlagFluid) EXCEPT !.depth = d]
\* the direction an earlier recompute has left in the updated cell
FlagLeftover == {"none", "e"}
FlagWorlds ==
  {[p \in FlagPos |->
      IF p = FlagCentre THEN [FlagBlock(d) EXCEPT !.direction = dir]
      ELSE IF p = Above(FlagCentre) THEN a
      ELSE IF p = Below(FlagCentre) THEN b
      ELSE ns[p]] :
     d \in 1..8,
     dir \in FlagLeftover,
     a \in {StoneBlock, FlagBlock(8)},
     b \in {StoneBlock, FlagBlock(8)},
     ns \in [FlagPos \ {FlagCentre, Above(FlagCentre), Below(FlagCentre)} ->
               {StoneBlock} \cup {FlagBlock(n) : n \in FlagDepths}]}

InitFlags ==
  /\ grid \in FlagWorlds
  /\ updatesPerInterval = UPDATES_PER_TICK
  /\ unloaded = {}
  /\ queue = [f \in FluidRegistry |->
                IF f = FlagFluid THEN <<getBlockLocationString(FlagCentre)>> ELSE <<>>]
  /\ activeFluidBlocks = {}
  /\ draining = "none"
  /\ itemsToProcess = <<>>
  /\ runQueue = <<>>
  /\ external = 0
  /\ op = Op("init", NoPos, "none")
  /\ pendingAtStart = 0
  /\ batch = <<>>
  /\ calls = <<>>
  /\ owed = [f \in FluidRegistry |-> {}]
  /\ due = {}
  /\ actors = [a \in ActorIds |-> NoActor]
  /\ entitiesInFluid = {}
  /\ exitLog = {}
  /\ effectLog = NoEffects
  /\ InitBlockUpdate

FlagNext ==
  \/ \E f \in FluidRegistry : DrainBegin(f)
  \/ DrainStep
  \/ DrainEnd

SpecFlags == InitFlags /\ [][FlagNext]_vars

\* ------------------------------------------------------------------------
\* The scheduler (queue.js)
\* ------------------------------------------------------------------------
NoDuplicates(q) == \A i, j \in 1..Len(q) : q[i] = q[j] => i = j
Count(q, k) == Cardinality({i \in 1..Len(q) : q[i] = k})
DrainAtEnd == ~Idle /\ itemsToProcess = <<>>
DrainAboutToStep == ~Idle /\ itemsToProcess # <<>>

\* C1: no pending update is lost: a coordinate that is pending in a queue
\* stays pending until a drain of that queue takes it into its batch, also
\* when more than updatesPerInterval coordinates are pending at the drain.
C1_NoPendingLost ==
  [][\A f \in FluidRegistry : \A k \in SeqRange(queue[f]) :
       \/ k \in SeqRange(queue'[f])
       \/ draining' = f /\ k \in SeqRange(itemsToProcess')]_vars

\* C2: add deduplicates: however often a coordinate is added between two
\* drains, the pending set holds it once, and a drain passes no coordinate to
\* the update callback twice.
C2_Dedup ==
  /\ \A f \in FluidRegistry : NoDuplicates(queue[f])
  /\ NoDuplicates(batch)
  /\ \A k \in SeqRange(calls) : Count(calls, k) = 1

\* a coordinate that was pending already has been added again, and is
\* pending once
C2_Witness ==
  /\ op.readd
  /\ \E f \in FluidRegistry : queue[f] # <<>>

\* C3: a drain invokes the update callback at most updatesPerInterval times,
\* however many coordinates were pending when it began and whatever is
\* enqueued while it runs.
C3_BatchBound == Len(calls) <= updatesPerInterval

\* a drain that began with more pending coordinates than its budget, has
\* used the budget up, and added coordinates meanwhile
C3_Witness ==
  /\ DrainAtEnd
  /\ pendingAtStart > updatesPerInterval
  /\ Len(calls) = updatesPerInterval
  /\ owed[draining] # {}

\* C4: a coordinate added while a drain processes its batch gets no update
\* in that drain on top of the batch's own (every call is for a coordinate of
\* the batch, once); it is pending afterwards; and the next drain of the
\* queue updates it exactly once.
C4_AddedDuringDrain ==
  ~Idle =>
    /\ SeqRange(calls) \subseteq SeqRange(batch)
    /\ \A k \in SeqRange(calls) : Count(calls, k) = 1
    /\ owed[draining] \subseteq SeqRange(queue[draining])
    /\ itemsToProcess = <<>> => \A k \in due : Count(calls, k) = 1

\* C5: a drain invokes the update callback for a coordinate it took only if
\* the block resolved at that moment is valid and of the queue's fluid;
\* otherwise the entry is dropped: no block, no pending set and no index
\* entry changes, and the drain goes on with the next entry.
C5_Revalidate ==
  [][DrainAboutToStep =>
       LET k == Head(itemsToProcess)
           block == Resolve(W, KeyLocation(k))
       IN IF block # Undefined /\ block.typeId = draining
          THEN calls' = Append(calls, k)
          ELSE /\ calls' = calls
               /\ grid' = grid
               /\ queue' = queue
               /\ activeFluidBlocks' = activeFluidBlocks
               /\ itemsToProcess' = Tail(itemsToProcess)
               /\ draining' = draining]_vars

\* an entry was dropped because its cell now holds another registered fluid
C5_Witness ==
  /\ op.name = "skip"
  /\ ~Idle
  /\ Resolve(W, op.pos).typeId \in FluidRegistry \ {draining}

\* the other ways an entry goes stale
C5_DroppedAir == op.name = "skip" /\ IsAir(Resolve(W, op.pos))
C5_DroppedSolid == op.name = "skip" /\ Resolve(W, op.pos) = StoneBlock
C5_DroppedUnresolved == op.name = "skip" /\ Resolve(W, op.pos) = Undefined

\* ------------------------------------------------------------------------
\* The cell rule (fluidUpdate)
\* ------------------------------------------------------------------------
IsFluid(b) == b.typeId \in FluidRegistry
IsSource(b) == IsFluid(b) /\ b.depth = MAX_SPREAD_DISTANCE
HorizontalNeighbors(p) == {DirOffset(p, HORIZONTAL_DIRECTIONS[i]) : i \in 1..4}

\* the cell a step of the running drain works on is a block of the queue's
\* fluid: fluidUpdate is about to run on it
UpdateDue(p) ==
  /\ DrainAboutToStep
  /\ p = KeyLocation(Head(itemsToProcess))
  /\ Resolve(W, p) # Undefined
  /\ Resolve(W, p).typeId = draining

Quiescent ==
  /\ Idle
  /\ runQueue = <<>>
  /\ \A f \in FluidRegistry : queue[f] = <<>>

\* C6: source permanence: a cell of depth 7 stops being a source of its
\* fluid only by the pickup of that cell (or by a command from outside the
\* engine), never by an update, whatever its neighbours are.
C6_SourcePermanence ==
  [][\A p \in DOMAIN grid :
       (/\ IsSource(grid[p])
        /\ ~(grid'[p].typeId = grid[p].typeId /\ IsSource(grid'[p])))
       => \/ op'.name = "pickup" /\ op'.pos = p
          \/ op'.name = "command"]_vars

\* a source was updated where a cell of any other depth would have decayed:
\* nothing feeds it from above or from its sides
C6_Witness ==
  /\ op.name = "fluidUpdate"
  /\ op.rule = "stay"
  /\ IsSource(Resolve(W, op.pos))
  /\ ~canBeSustainedNoSource(W, op.pos)

\* C7: fall precedence: an update of a fluid cell over an empty cell writes
\* the cell below as the same fluid with depth 7 if the updated cell is a
\* source and 8 otherwise, enqueues it, clears the updated cell if and only
\* if it is no source, and writes no horizontal neighbour.
C7_FallPrecedence ==
  [][\A p \in DOMAIN grid :
       (UpdateDue(p) /\ IsAir(Resolve(W, Below(p)))) =>
         /\ grid'[Below(p)].typeId = grid[p].typeId
         /\ grid'[Below(p)].depth =
              IF grid[p].depth = MAX_SPREAD_DISTANCE THEN MAX_SPREAD_DISTANCE ELSE 8
         /\ getBlockLocationString(Below(p)) \in SeqRange(queue'[draining])
         /\ IsAir(grid'[p]) <=> grid[p].depth # MAX_SPREAD_DISTANCE
         /\ grid[p].depth = MAX_SPREAD_DISTANCE => grid'[p] = grid[p]
         /\ \A n \in HorizontalNeighbors(p) \cap DOMAIN grid : grid'[n] = grid[n]]_vars

\* a cell fell although a horizontal neighbour was empty
C7_Witness ==
  /\ op.name = "fluidUpdate"
  /\ op.rule = "fall"
  /\ IsFluid(Resolve(W, Below(op.pos)))
  /\ \E n \in HorizontalNeighbors(op.pos) \cap DOMAIN grid : IsAir(Resolve(W, n))

\* a fluid cell that is no source, has no horizontal neighbour of its fluid
\* with a greater depth and no cell of its fluid above
Unsupported(p) ==
  /\ IsFluid(grid[p])
  /\ ~canBeSustained(W, p)

\* C8: decay: a fluid cell that nothing sustains is empty by the end of the
\* next drain of its fluid's queue; so once every queue is empty and no
\* callback is outstanding, no such cell is left.
C8_DecayWithinOneDrain ==
  Quiescent => \A p \in DOMAIN grid : ~Unsupported(p)

Abs(n) == IF n < 0 THEN 0 - n ELSE n
Dist(p, q) == Abs(p[1] - q[1]) + Abs(p[2] - q[2]) + Abs(p[3] - q[3])

\* C9: every cell made by horizontal spread has the depth of the updated
\* cell less one, and a cell of depth 1 makes none; so around the source on
\* the floor a fluid cell d steps away has depth 7 - d, and none is further
\* than 6 steps away.
C9_SpreadStep ==
  \A p \in DOMAIN grid :
    UpdateDue(p) =>
      \A n \in HorizontalNeighbors(p) \cap DOMAIN grid :
        (IsAir(grid[n]) /\ ~IsAir(grid'[n])) =>
          /\ grid'[n].typeId = grid[p].typeId
          /\ grid'[n].depth = grid[p].depth - 1
          /\ grid'[n].depth >= 1

C9_Chain ==
  \A p \in DOMAIN grid :
    IsFluid(grid[p]) =>
      /\ Dist(p, Centre) <= MAX_SPREAD_DISTANCE - 1
      /\ grid[p].depth = MAX_SPREAD_DISTANCE - Dist(p, Centre)

C9_DepthMonotone == [][C9_SpreadStep]_vars /\ []C9_Chain

\* a cell of depth 1 was updated next to an empty cell, which stayed empty
C9_Witness ==
  /\ op.name = "fluidUpdate"
  /\ op.rule = "stay"
  /\ Resolve(W, op.pos).depth = 1
  /\ Dist(op.pos, Centre) = MAX_SPREAD_DISTANCE - 1
  /\ \E n \in HorizontalNeighbors(op.pos) \cap DOMAIN grid : IsAir(grid[n])

\* the four straight lines from the source: depth 7 - d at distance d = 1..6,
\* and an empty cell at distance 7
LineCell(i, d) ==
  <<Centre[1] + d * HORIZONTAL_DIRECTIONS[i].dx, Centre[2],
    Centre[3] + d * HORIZONTAL_DIRECTIONS[i].dz>>

LineOk ==
  \A i \in 1..4 :
    /\ \A d \in 1..(MAX_SPREAD_DISTANCE - 1) :
         /\ grid[LineCell(i, d)].typeId = grid[Centre].typeId
         /\ grid[LineCell(i, d)].depth = MAX_SPREAD_DISTANCE - d
    /\ IsAir(grid[LineCell(i, MAX_SPREAD_DISTANCE)])

\* C10: after a source is placed on the empty flat floor and nothing else
\* comes from outside, the system reaches and keeps a state where the cells
\* in each straight line from the source have depth 7 - d at distance
\* d = 1..6 and the cell at distance 7 is empty.
C10_FloorSettles == <>[](IsSource(grid[Centre]) => LineOk)

C10_Witness ==
  /\ IsSource(grid[Centre])
  /\ LineOk
  /\ Quiescent

\* the source of the channel was picked up: the pickup is the second and
\* last event from outside
PickedUp == external = 2 /\ runQueue = <<>>

\* C11: after the pickup of the source that alone fed a straight stream of
\* 3 cells (depths 6, 5, 4) in a channel, the 3 cells are empty within 2
\* drains of the queue; so once the queue is empty and no drain runs, the
\* channel is empty.
C11_StreamDecays ==
  (PickedUp /\ Quiescent) => \A p \in ChannelPos : IsAir(grid[p])

\* ------------------------------------------------------------------------
\* Place and pickup
\* ------------------------------------------------------------------------
\* the next step of system.run is the deferred callback of the given kind
DeferredRuns(kind) ==
  /\ Idle
  /\ runQueue # <<>>
  /\ Head(runQueue).kind = kind
  /\ runQueue' = Tail(runQueue)

PlaceAllowed(task) ==
  /\ Resolve(W, task.pos) # Undefined
  /\ IsAir(Resolve(W, task.pos))
  /\ task.fluid \in FluidRegistry

\* C12: place succeeds only if, when it runs, the target is air and the
\* bucket's fluid is registered; then the target is that fluid with depth 7
\* and direction none, and its coordinate is tracked and pending; in every
\* other case grid, tracked set and pending sets are unchanged.
C12_Place ==
  [][DeferredRuns("place") =>
       LET task == Head(runQueue)
       IN IF PlaceAllowed(task)
          THEN /\ grid'[task.pos].typeId = task.fluid
               /\ grid'[task.pos].depth = MAX_SPREAD_DISTANCE
               /\ grid'[task.pos].direction = "none"
               /\ \A q \in DOMAIN grid \ {task.pos} : grid'[q] = grid[q]
               /\ getBlockLocationString(task.pos) \in activeFluidBlocks'
               /\ getBlockLocationString(task.pos) \in SeqRange(queue'[task.fluid])
          ELSE /\ grid' = grid
               /\ activeFluidBlocks' = activeFluidBlocks
               /\ queue' = queue]_vars

\* a place ran for a fluid block that is not registered on an air target and
\* changed nothing
C12_Witness ==
  /\ op.name = "place"
  /\ op.rule = "none"
  /\ IsAir(Resolve(W, op.pos))

\* a place succeeded / was refused since the target was taken in the
\* meantime / was refused since the target could not be resolved
C12_Placed == op.name = "place" /\ op.rule = "done"
C12_TargetTaken ==
  op.name = "place" /\ op.rule = "none" /\ Resolve(W, op.pos) = StoneBlock
C12_TargetUnresolved ==
  op.name = "place" /\ op.rule = "none" /\ Resolve(W, op.pos) = Undefined

FaceNeighbors(p) == {Offset(p, NEIGHBOR_OFFSETS[i]) : i \in 1..Len(NEIGHBOR_OFFSETS)} \ {p}

\* a step of the interaction handler: it hands a callback to system.run or
\* does nothing
Interaction == op'.name = "interact"

\* C13: pickup is accepted only for a fluid cell of depth 7, so a request on
\* a fluid cell of another depth changes neither grid, tracked set nor
\* pending sets; when the accepted pickup runs on the fluid cell, the cell is
\* air, its coordinate is not tracked, and every face neighbour that is a
\* registered fluid is pending in its fluid's queue.
C13_Pickup ==
  [][/\ Interaction =>
          /\ grid' = grid /\ activeFluidBlocks' = activeFluidBlocks /\ queue' = queue
          /\ \A i \in (Len(runQueue) + 1)..Len(runQueue') :
               runQueue'[i].kind = "pickup" =>
                 /\ HasFluidTag(Resolve(W, runQueue'[i].pos))
                 /\ Resolve(W, runQueue'[i].pos).depth = MAX_SPREAD_DISTANCE
          /\ op'.rule = "refused" => runQueue' = runQueue
     /\ DeferredRuns("pickup") =>
          LET p == Head(runQueue).pos
              block == Resolve(W, p)
          IN IF block # Undefined /\ HasFluidTag(block)
             THEN /\ IsAir(grid'[p])
                  /\ getBlockLocationString(p) \notin activeFluidBlocks'
                  /\ \A q \in DOMAIN grid \ {p} : grid'[q] = grid[q]
                  /\ \A n \in FaceNeighbors(p) \cap DOMAIN grid :
                       (Resolve(W, n) # Undefined /\ IsFluid(Resolve(W, n))) =>
                         getBlockLocationString(n) \in SeqRange(queue'[grid[n].typeId])
             ELSE /\ grid' = grid
                  /\ activeFluidBlocks' = activeFluidBlocks
                  /\ queue' = queue]_vars

\* a pickup ran on a source with a fluid face neighbour that was not pending
C13_Witness ==
  /\ op.name = "pickup"
  /\ op.rule = "done"
  /\ ~op.readd
  /\ \E n \in FaceNeighbors(op.pos) \cap DOMAIN grid : IsFluid(grid[n])

\* a request on a fluid cell that is no source
C13_Refused == op.name = "interact" /\ op.rule = "refused"

\* C14: fluidUpdate enqueues every cell it writes in the update: the cell
\* made below, each horizontal neighbour made, and the updated cell itself
\* when it is cleared or its flags or direction are rewritten.
C14_EnqueuesWritten ==
  [][\A p \in DOMAIN grid :
       UpdateDue(p) =>
         \A q \in DOMAIN grid :
           grid'[q] # grid[q] =>
             getBlockLocationString(q) \in SeqRange(queue'[draining])]_vars

\* a step in which the engine itself writes cells: fluidUpdate, the deferred
\* place or the deferred pickup
EngineWrites ==
  \/ \E p \in DOMAIN grid : UpdateDue(p)
  \/ DeferredRuns("place")
  \/ DeferredRuns("pickup")

\* the subscribers were called for cell n: a registered fluid there is
\* pending in its queue
Notified(n) ==
  IsFluid(grid'[n]) => getBlockLocationString(n) \in SeqRange(queue'[grid'[n].typeId])

\* C15: every write of a cell by the engine itself (fall, decay, spread and
\* flag writes of fluidUpdate, the writes of place and pickup) is followed by
\* a notification for the written cell and its 6 face neighbours, so the
\* fluid cells among them are enqueued.
C15_WritesNotify ==
  [][EngineWrites =>
       \A q \in DOMAIN grid :
         grid'[q] # grid[q] =>
           \A n \in (FaceNeighbors(q) \cup {q}) \cap DOMAIN grid : Notified(n)]_vars

\* the greatest depth among the horizontal neighbours of p of its own fluid,
\* -1 if there is none (maxNeighborDepth of fluidUpdate)
MaxNeighborDepth(p) ==
  LET ds == {grid[n].depth : n \in {m \in HorizontalNeighbors(p) \cap DOMAIN grid :
                                      grid[m].typeId = grid[p].typeId}}
  IN IF ds = {} THEN 0 - 1 ELSE CHOOSE d \in ds : \A e \in ds : e <= d

\* C16: in every quiescent state each fluid cell that is no source has the
\* depth of its deepest horizontal neighbour of the same fluid less one, or
\* has depth 8 and the same fluid directly above.
C16_DepthRule ==
  Quiescent =>
    \A p \in DOMAIN grid :
      (IsFluid(grid[p]) /\ ~IsSource(grid[p])) =>
        \/ grid[p].depth = MaxNeighborDepth(p) - 1
        \/ grid[p].depth = 8 /\ isFlowingDownward(W, p)

\* ------------------------------------------------------------------------
\* The flag recompute
\* ------------------------------------------------------------------------
\* C18: for a cell that neither falls nor decays, the flag step run again on
\* its own result, with the depths of the cell and of its neighbours as they
\* were, gives the same six flags and the same direction.
C18_FlagsIdempotent ==
  (op.name = "fluidUpdate" /\ op.rule = "stay") =>
    LET once == Recompute(W, W, op.pos)
        twice == Recompute(once, once, op.pos)
    IN /\ Resolve(once, op.pos) = Resolve(W, op.pos)
       /\ Resolve(twice, op.pos).inv = Resolve(W, op.pos).inv
       /\ Resolve(twice, op.pos).direction = Resolve(W, op.pos).direction

\* the step ran in horizontal mode and wrote a side flag and a direction
C18_Witness ==
  /\ op.name = "fluidUpdate"
  /\ op.rule = "stay"
  /\ ~isFlowingDownward(W, op.pos)
  /\ grid[op.pos].direction = "e"
  /\ \E j \in 1..4 : grid[op.pos].inv[j] = 2

\* ... and in vertical-fall mode, with a side flag of each value
C18_FallingMode ==
  /\ op.name = "fluidUpdate"
  /\ op.rule = "stay"
  /\ isFlowingDownward(W, op.pos)
  /\ \E j \in 1..4 : grid[op.pos].inv[j] = 2
  /\ \E j \in 1..4 : grid[op.pos].inv[j] = 1

\* ------------------------------------------------------------------------
\* The tick loop
\* ------------------------------------------------------------------------
\* the last step was a cycle of the tick loop
AfterCycle == op.name = "tick"

\* C17: an entry of the active-cell index whose cell is no fluid any more,
\* however the cell was removed or replaced, is removed from the index at
\* the latest when the tick loop next finds no fluid at that coordinate: no
\* such entry is left after a cycle.
C17_IndexHeals ==
  AfterCycle =>
    \A k \in activeFluidBlocks : IsFluid(Resolve(W, KeyLocation(k)))

\* the entity is valid and the cell it is in is a registered fluid
InFluidCell(a) == actors[a].valid /\ BodyInFluid(a)

\* C19: the exit actions of a player (fog removal; flight restore and tag
\* removal if the loop had disabled flight) run exactly in the first cycle
\* in which the player, INSIDE until then, is no longer in a fluid cell.
C19_ExitOnce ==
  [][op'.name = "tick" =>
       \A a \in ActorIds :
         (IsPlayer(a) /\ actors[a].valid) =>
           /\ <<a, "fog">> \in exitLog' <=>
                (a \in entitiesInFluid /\ ~BodyInFluid(a))
           /\ <<a, "mayfly">> \in exitLog' <=>
                (a \in entitiesInFluid /\ ~BodyInFluid(a) /\ actors[a].tag)
           /\ <<a, "mayfly">> \in exitLog' => ~actors'[a].tag]_vars

\* C20: after each cycle of the tick loop entitiesInFluid is the set of the
\* valid entities whose cell is a registered fluid.
C20_TrackedAreInFluid ==
  AfterCycle => entitiesInFluid = {a \in ActorIds : InFluidCell(a)}

\* the handlers the cycle has to call for an entity: one for each key of
\* the fluid's catalog entry that has a handler
HandlersDue(a) == HandlerKeys \cap DOMAIN FluidDataOf(a)

\* C21: when an effect handler throws for an entity in a fluid, the other
\* handlers of that entity and the handlers of the other entities are still
\* called in that cycle, and the cycle's bookkeeping completes: after the
\* cycle every handler due has been called once for every entity in a
\* fluid, and entitiesInFluid holds no entity that has left.
C21_HandlersIsolated ==
  AfterCycle =>
    /\ \A a \in entitiesInFluid :
         \A k \in HandlersDue(a) : effectLog[<<a, k>>].called = 1
    /\ entitiesInFluid \subseteq {a \in ActorIds : InFluidCell(a)}

\* a handler of an entity has thrown, a later handler of the same entity
\* and a handler of the other entity have applied their effects
C21_Witness ==
  /\ AfterCycle
  /\ \E a \in entitiesInFluid : \E b \in entitiesInFluid \ {a} :
       /\ effectLog[<<a, "burnTime">>].errors = 1
       /\ effectLog[<<a, "effect">>].applied = 1
       /\ \E k \in HandlerKeys : effectLog[<<b, k>>].applied = 1

\* C22: for a player or creature that is in a fluid, a cycle applies the
\* damage effect exactly once if the catalog damage of the fluid is > 0 and
\* not at all otherwise, and the ignite effect exactly once if its burnTime
\* is > 0 and not at all otherwise (for the handlers that return normally).
C22_EffectsByCatalog ==
  AfterCycle =>
    \A a \in entitiesInFluid :
      HasHealth(a) =>
        \A k \in {"damage", "burnTime"} :
          effectLog[<<a, k>>].errors = 0 =>
            effectLog[<<a, k>>].applied = IF FluidDataOf(a)[k] > 0 THEN 1 ELSE 0

\* a creature in the fluid with damage 2 and burnTime 0 has received the
\* damage effect once and no ignite effect
C22_Witness ==
  /\ AfterCycle
  /\ "mob" \in entitiesInFluid
  /\ actors["mob"].health
  /\ FluidDataOf("mob").damage = 2
  /\ FluidDataOf("mob").burnTime = 0
  /\ effectLog[<<"mob", "damage">>] = [called |-> 1, applied |-> 1, errors |-> 0]
  /\ effectLog[<<"mob", "burnTime">>] = [called |-> 1, applied |-> 0, errors |-> 0]

\* ------------------------------------------------------------------------
\* Fluid types without a catalog entry
\* ------------------------------------------------------------------------
IsUnregistered(b) == b.typeId = UnregisteredFluid

\* C23: a cell whose fluid type has no FluidRegistry entry is never added
\* to a pending set and never changed by fluidUpdate: fluidUpdate on such a
\* cell writes nothing, no step adds the coordinate of such a cell to a
\* queue, and a step of fluidUpdate on any cell leaves such a cell as it is.
C23_UnregisteredInert ==
  [][\A p \in DOMAIN grid :
       /\ IsUnregistered(grid[p]) => fluidUpdate(W, p) = W
       /\ IsUnregistered(grid'[p]) =>
            \A f \in FluidRegistry :
              getBlockLocationString(p) \in SeqRange(queue'[f]) =>
                getBlockLocationString(p) \in SeqRange(queue[f])
       /\ (IsUnregistered(grid[p]) /\ op'.name \in {"fluidUpdate", "skip"}) =>
            grid'[p] = grid[p]]_vars

\* a block was broken under the unregistered fluid cell, the listener was
\* called for the cell, and no queue holds its coordinate
C23_Witness ==
  /\ op.name = "playerBreakBlock"
  /\ IsUnregistered(grid[UnregisteredCell])
  /\ IsAir(grid[Below(UnregisteredCell)])
  /\ \A f \in FluidRegistry :
       getBlockLocationString(UnregisteredCell) \notin SeqRange(queue[f])

\* ------------------------------------------------------------------------
\* Errors inside the update callback
\* ------------------------------------------------------------------------
\* C24: when the update of one cell of a batch raises an error, the error
\* does not leave the drain: the callback goes on with the rest of the
\* batch, a drain ends only when its batch is used up, and the failing
\* update does not put its cell back into the queue (the cell is queued
\* after the failure only if an earlier update of the drain had already
\* enqueued it again).
C24_FailureIsolated ==
  [][/\ (op'.name = "fluidUpdate" /\ op'.rule = "throw") =>
          /\ draining' = draining
          /\ itemsToProcess' = Tail(itemsToProcess)
          /\ getBlockLocationString(op'.pos) \in SeqRange(queue'[draining])
               => getBlockLocationString(op'.pos) \in SeqRange(queue[draining])
     /\ (~Idle /\ Idle') => itemsToProcess = <<>>]_vars

\* two cells of one batch have been updated, the update of the first threw
\* and so did the update of the second
C24_Witness ==
  /\ DrainAtEnd
  /\ Len(calls) = 2
  /\ op.rule = "throw"

\* ------------------------------------------------------------------------
\* Other listeners, and listeners that throw
\* ------------------------------------------------------------------------
\* BlockUpdate.on, called by another script
on ==
  /\ Idle
  /\ lastEventId + 1 < MaxListeners
  /\ lastEventId' = lastEventId + 1
  /\ Events' = [id \in DOMAIN Events \cup {lastEventId + 1} |->
                  IF id \in DOMAIN Events THEN Events[id] ELSE "other"]
  /\ op' = Op("on", NoPos, "none")
  /\ UNCHANGED <<grid, unloaded, queue, activeFluidBlocks, updatesPerInterval,
                 runQueue, external, delivered,
                 actors, entitiesInFluid, exitLog, effectLog>>
  /\ DrainVarsUnchanged

\* BlockUpdate.off, called by the script that registered the callback
off(id) ==
  /\ Idle
  /\ id \in DOMAIN Events
  /\ Events[id] = "other"
  /\ Events' = [j \in DOMAIN Events \ {id} |-> Events[j]]
  /\ op' = Op("off", NoPos, "none")
  /\ UNCHANGED <<grid, unloaded, queue, activeFluidBlocks, updatesPerInterval,
                 runQueue, external, lastEventId, delivered,
                 actors, entitiesInFluid, exitLog, effectLog>>
  /\ DrainVarsUnchanged

\* the calls that throw in one trigger: none, or the callback of one
\* listener, for the first offset, for the up offset or for every offset
ThrowChoices ==
  {{}} \cup {{id} \X offsets : id \in DOMAIN Events,
                               offsets \in {{1}, {4}, 1..Len(NEIGHBOR_OFFSETS)}}

\* playerPlaceBlock -> easyTrigger -> BlockUpdate.trigger, with every
\* registered listener
PlayerPlaceBlockThrowing(p, throwing) ==
  /\ Idle
  /\ external < MaxExternal
  /\ Resolve(W, p) # Undefined /\ IsAir(Resolve(W, p))
  /\ LET st == triggerAll(Events, SetBlock(W, p, StoneBlock), p, throwing)
     IN Apply(st.w) /\ delivered' = st.log
  /\ external' = external + 1
  /\ op' = OpR("playerPlaceBlock", p, "none", ListenerReAdds(W, p))
  /\ UNCHANGED <<unloaded, updatesPerInterval, runQueue, Events, lastEventId,
                 actors, entitiesInFluid, exitLog, effectLog>>
  /\ DrainVarsUnchanged

\* playerBreakBlock -> BlockUpdate.triggerForNeighborsAt, with every
\* registered listener
PlayerBreakBlockThrowing(p, throwing) ==
  /\ Idle
  /\ external < MaxExternal
  /\ Resolve(W, p) = StoneBlock
  /\ LET st == triggerForNeighborsAtAll(Events, SetBlock(W, p, AirBlock), p, throwing)
     IN Apply(st.w) /\ delivered' = st.log
  /\ external' = external + 1
  /\ op' = OpR("playerBreakBlock", p, "none", ListenerReAdds(W, p))
  /\ UNCHANGED <<unloaded, updatesPerInterval, runQueue, Events, lastEventId,
                 actors, entitiesInFluid, exitLog, effectLog>>
  /\ DrainVarsUnchanged

\* a world of initialize with no fluid, or with a source left by an earlier
\* session
InitListeners ==
  /\ InitCommon
  /\ grid \in ActorWorlds
  /\ updatesPerInterval = UPDATES_PER_TICK

\* the cells whose block the player changes: the cell beside the source and
\* the cell under it
ListenerCells == {<<MaxX - 1, 1, 0>>, <<MaxX, 0, 0>>}

ListenerNext ==
  \/ ChunkToggle(MaxX)
  \/ on
  \/ \E id \in 0..(MaxListeners - 1) : off(id)
  \/ \E p \in ListenerCells, throwing \in ThrowChoices :
       PlayerPlaceBlockThrowing(p, throwing)
  \/ \E p \in ListenerCells, throwing \in ThrowChoices :
       PlayerBreakBlockThrowing(p, throwing)

\* the notifier with the listeners of several scripts, some of which throw
SpecListeners == InitListeners /\ [][ListenerNext]_vars

\* ------------------------------------------------------------------------
\* Listeners that throw
\* ------------------------------------------------------------------------
\* the offsets of the last trigger whose target block exists
Targets ==
  {i \in 1..Len(NEIGHBOR_OFFSETS) :
     Resolve(W, Offset(op.pos, NEIGHBOR_OFFSETS[i])) # Undefined}

\* C25: after a trigger, whatever calls threw, every registered listener was
\* called once for every offset whose target block exists, and every
\* registered fluid block for which the call of the listener of fluids.js
\* did not throw is in its queue.
C25_DeliveryToAll ==
  op.name \in {"playerPlaceBlock", "playerBreakBlock"} =>
    /\ {<<e[1], e[2]>> : e \in delivered} = (DOMAIN Events) \X Targets
    /\ \A i \in Targets :
         LET q == Offset(op.pos, NEIGHBOR_OFFSETS[i])
         IN (<<0, i, FALSE>> \in delivered /\ Resolve(W, q).typeId \in FluidRegistry)
              => getBlockLocationString(q) \in SeqRange(queue[Resolve(W, q).typeId])

\* a trigger with two listeners in which the listener of fluids.js threw
\* for the placed block itself: the other listener was called for that
\* block all the same, and for a later offset the listener of fluids.js
\* added a fluid block that was not pending
C25_Witness ==
  /\ op.name = "playerPlaceBlock"
  /\ ~op.readd
  /\ <<0, 1, TRUE>> \in delivered
  /\ <<1, 1, FALSE>> \in delivered
  /\ \E i \in Targets \ {1} :
       LET q == Offset(op.pos, NEIGHBOR_OFFSETS[i])
       IN /\ <<0, i, FALSE>> \in delivered
          /\ Resolve(W, q).typeId \in FluidRegistry
          /\ getBlockLocationString(q) \in SeqRange(queue[Resolve(W, q).typeId])

\* ------------------------------------------------------------------------
\* The rules of fluidUpdate
\* ------------------------------------------------------------------------
\* the cell has the same fluid directly above, or a horizontal neighbour of
\* the same fluid and of strictly greater depth
FedFromAboveOrSide(p) ==
  \/ Resolve(W, Above(p)).typeId = Resolve(W, p).typeId
  \/ \E i \in 1..4 :
       LET n == Resolve(W, DirOffset(p, HORIZONTAL_DIRECTIONS[i]))
       IN n.typeId = Resolve(W, p).typeId /\ n.depth > Resolve(W, p).depth

\* C26: when fluidUpdate runs on a cell that is no source and whose cell
\* below is not empty, the cell stays the fluid it is, with its depth, if
\* and only if the same fluid is directly above or a horizontal neighbour
\* of the same fluid has strictly greater depth; otherwise the cell becomes
\* air, its coordinate leaves the active-cell index, and the update writes
\* no other cell, index entry or queue.
C26_SustainRule ==
  [][(/\ op'.name = "fluidUpdate"
      /\ Resolve(W, op'.pos).depth # MAX_SPREAD_DISTANCE
      /\ Resolve(W, Below(op'.pos)) # Undefined
      /\ ~IsAir(Resolve(W, Below(op'.pos)))) =>
       IF FedFromAboveOrSide(op'.pos)
       THEN /\ grid'[op'.pos].typeId = grid[op'.pos].typeId
            /\ grid'[op'.pos].depth = grid[op'.pos].depth
       ELSE /\ grid'[op'.pos] = AirBlock
            /\ activeFluidBlocks' =
                 activeFluidBlocks \ {getBlockLocationString(op'.pos)}
            /\ \A q \in DOMAIN grid \ {op'.pos} : grid'[q] = grid[q]
            /\ queue' = queue]_vars

\* a cell has decayed beside a cell of the same fluid that is still there
\* (a neighbour of smaller depth did not sustain it), and its coordinate
\* has left the index, which still holds another coordinate
C26_Witness ==
  /\ op.name = "fluidUpdate"
  /\ op.rule = "decay"
  /\ IsAir(grid[op.pos])
  /\ activeFluidBlocks # {}
  /\ \E i \in 1..4 : Resolve(W, DirOffset(op.pos, HORIZONTAL_DIRECTIONS[i])).typeId
                        \in FluidRegistry

\* the horizontal neighbours of p that are air
EmptyNeighbors(p) ==
  {n \in HorizontalNeighbors(p) : Resolve(W, n) # Undefined /\ IsAir(Resolve(W, n))}

\* C27: when fluidUpdate runs on a cell that is sustained and whose cell
\* below is not empty, then, if the depth of the cell is > 1 and the same
\* fluid is not directly above, every empty horizontal neighbour becomes a
\* cell of the same fluid of depth (depth - 1) and is pending in the queue
\* of the fluid, and no other cell beside the updated one is written; in
\* every other case no cell beside the updated one is written.
C27_SpreadRule ==
  [][(/\ op'.name = "fluidUpdate"
      /\ Resolve(W, Below(op'.pos)) # Undefined
      /\ ~IsAir(Resolve(W, Below(op'.pos)))
      /\ \/ Resolve(W, op'.pos).depth = MAX_SPREAD_DISTANCE
         \/ FedFromAboveOrSide(op'.pos)) =>
       LET block == Resolve(W, op'.pos)
           targets == IF block.depth > 1
                         /\ Resolve(W, Above(op'.pos)).typeId # block.typeId
                      THEN EmptyNeighbors(op'.pos)
                      ELSE {}
       IN /\ \A n \in targets :
               /\ grid'[n].typeId = block.typeId
               /\ grid'[n].depth = block.depth - 1
               /\ getBlockLocationString(n) \in SeqRange(queue'[block.typeId])
          /\ \A q \in DOMAIN grid \ (targets \cup {op'.pos}) : grid'[q] = grid[q]]_vars

\* a cell with the same fluid above and an empty cell beside it has been
\* updated, and the cell beside it is still empty
C27_Witness ==
  /\ op.name = "fluidUpdate"
  /\ op.rule = "stay"
  /\ IsFluid(grid[op.pos])
  /\ grid[op.pos].depth > 1
  /\ Resolve(W, Above(op.pos)).typeId = grid[op.pos].typeId
  /\ EmptyNeighbors(op.pos) # {}

\* ------------------------------------------------------------------------
\* The faces of a rendered cell
\* ------------------------------------------------------------------------
\* the minecraft:transformation rotation about the vertical axis that the
\* block permutation of a direction carries, in degrees
rotations(dir) ==
  CASE dir = "e" -> 90
    [] dir = "s" -> 180
    [] dir = "w" -> 0 - 90
    [] OTHER -> 0

\* the side (0 north, 1 east, 2 south, 3 west) a bone of the geometry faces
\* once the model is turned by degrees: a turn of 90 takes the north bone
\* to the west, the east bone to the north
TurnedBone(bone, degrees) == (bone + 4 - (((degrees + 360) \div 90) % 4)) % 4

\* the index in INVISIBLE_STATE_NAMES (from 1) of the flag that shows or
\* hides the face the block has toward side d
FaceToward(block, d) ==
  1 + CHOOSE bone \in 0..3 : TurnedBone(bone, rotations(block.direction)) = d

\* C28: after the flag recompute of a cell that has no same fluid above,
\* the flag of the face toward each horizontal side is 2 if the neighbour
\* on that side is the same fluid and deeper than the cell, and 0 if not,
\* whatever direction the recompute has written.
C28_HorizontalFaces ==
  (op.name = "fluidUpdate" /\ op.rule = "stay" /\ ~isFlowingDownward(W, op.pos)) =>
    \A d \in 0..3 :
      LET block == grid[op.pos]
          neighbor == Resolve(W, DirOffset(op.pos, HORIZONTAL_DIRECTIONS[d + 1]))
      IN block.inv[FaceToward(block, d)] =
           IF neighbor.typeId = block.typeId /\ block.depth < neighbor.depth
           THEN 2 ELSE 0

\* a recompute has written the direction e and has hidden the face toward
\* the deeper neighbour in the east, whose flag is not the one named east
C28_Witness ==
  /\ op.name = "fluidUpdate"
  /\ op.rule = "stay"
  /\ ~isFlowingDownward(W, op.pos)
  /\ grid[op.pos].direction = "e"
  /\ grid[op.pos].inv[FaceToward(grid[op.pos], 1)] = 2
  /\ grid[op.pos].inv[2] = 0

\* C29: after every flag recompute of a cell, in horizontal mode and in
\* vertical-fall mode, the up flag of the cell is 1 if and only if the cell
\* directly above is the same fluid, and its down flag is 1 if and only if
\* the cell directly below is the same fluid.
C29_VerticalFlags ==
  (op.name = "fluidUpdate" /\ op.rule = "stay") =>
    /\ grid[op.pos].inv[5] = 1 <=>
         Resolve(W, Above(op.pos)).typeId = grid[op.pos].typeId
    /\ grid[op.pos].inv[6] = 1 <=>
         Resolve(W, Below(op.pos)).typeId = grid[op.pos].typeId

\* C30: after the flag recompute of a cell with the same fluid directly
\* above, the flag of the face toward each horizontal side is 2 if the
\* neighbour on that side is the same fluid and deeper than the cell, else
\* 1 if it is the same fluid and its depth is the depth of the cell less 1,
\* less 1 more when the cell is a source, else 0.
C30_FallingFaces ==
  (op.name = "fluidUpdate" /\ op.rule = "stay" /\ isFlowingDownward(W, op.pos)) =>
    \A d \in 0..3 :
      LET block == grid[op.pos]
          neighbor == Resolve(W, DirOffset(op.pos, HORIZONTAL_DIRECTIONS[d + 1]))
      IN block.inv[FaceToward(block, d)] =
           IF neighbor.typeId # block.typeId THEN 0
           ELSE IF block.depth < neighbor.depth THEN 2
           ELSE IF neighbor.depth = block.depth - 1 - BoolToNumber(IsSource(block))
           THEN 1 ELSE 0

\* the same rule read by state name: the flag named after the side
C30_FallingStates ==
  (op.name = "fluidUpdate" /\ op.rule = "stay" /\ isFlowingDownward(W, op.pos)) =>
    \A d \in 0..3 :
      LET block == grid[op.pos]
          neighbor == Resolve(W, DirOffset(op.pos, HORIZONTAL_DIRECTIONS[d + 1]))
      IN block.inv[d + 1] =
           IF neighbor.typeId # block.typeId THEN 0
           ELSE IF block.depth < neighbor.depth THEN 2
           ELSE IF neighbor.depth = block.depth - 1 - BoolToNumber(IsSource(block))
           THEN 1 ELSE 0

\* ------------------------------------------------------------------------
\* The direction state
\* ------------------------------------------------------------------------
\* the indices (1 north, 2 east, 3 south, 4 west) of the horizontal
\* neighbours of p that are the fluid of p
SameFluidSides(p) ==
  {i \in 1..4 : Resolve(W, DirOffset(p, HORIZONTAL_DIRECTIONS[i])).typeId
                  = Resolve(W, p).typeId}

\* the facing of the deepest of them, the first in scan order on a tie
DeepestFacing(p) ==
  IF SameFluidSides(p) = {} THEN "none"
  ELSE HORIZONTAL_DIRECTIONS[
         CHOOSE i \in SameFluidSides(p) :
           \A j \in SameFluidSides(p) :
             LET di == Resolve(W, DirOffset(p, HORIZONTAL_DIRECTIONS[i])).depth
                 dj == Resolve(W, DirOffset(p, HORIZONTAL_DIRECTIONS[j])).depth
             IN dj < di \/ (dj = di /\ i <= j)].facing

\* C31: after the flag recompute the direction of the cell is none when
\* the same fluid is directly above, whatever it was before, and otherwise
\* the facing of the deepest horizontal neighbour of the same fluid (the
\* first of north, east, south, west on a tie), none when there is none.
C31_Direction ==
  (op.name = "fluidUpdate" /\ op.rule = "stay") =>
    grid[op.pos].direction =
      IF isFlowingDownward(W, op.pos) THEN "none" ELSE DeepestFacing(op.pos)

\* the part of the rule for a cell with no same fluid above
C31_HorizontalDirection ==
  (op.name = "fluidUpdate" /\ op.rule = "stay" /\ ~isFlowingDownward(W, op.pos)) =>
    grid[op.pos].direction = DeepestFacing(op.pos)

\* ------------------------------------------------------------------------
\* Redundant writes
\* ------------------------------------------------------------------------
\* C32: when the flags and the direction recomputed for the updated cell
\* are the ones the cell has, fluidUpdate does not write the cell: the cell
\* is as it was, and the cells the step has changed are the neighbours it
\* has newly made out of air.
C32_NoRedundantWrite ==
  [][(/\ op'.name = "fluidUpdate"
      /\ op'.rule = "stay"
      /\ NewPermutation(W, Spread(W, op'.pos), op'.pos).inv = grid[op'.pos].inv
      /\ NewPermutation(W, Spread(W, op'.pos), op'.pos).direction
           = grid[op'.pos].direction) =>
       /\ ~WritesUpdatedCell(W, Spread(W, op'.pos), op'.pos)
       /\ grid'[op'.pos] = grid[op'.pos]
       /\ \A q \in DOMAIN grid :
            grid'[q] # grid[q] =>
              /\ q \in HorizontalNeighbors(op'.pos)
              /\ IsAir(grid[q])
              /\ IsFluid(grid'[q])]_vars

\* a source with the flags and the direction of its placement has been
\* updated: it is as it was placed, and it has made a neighbour
C32_Witness ==
  /\ op.name = "fluidUpdate"
  /\ op.rule = "stay"
  /\ grid[op.pos] = [DefaultPermutation(grid[op.pos].typeId)
                       EXCEPT !.depth = MAX_SPREAD_DISTANCE]
  /\ \E q \in HorizontalNeighbors(op.pos) \cap DOMAIN grid :
       IsFluid(grid[q]) /\ grid[q].depth = MAX_SPREAD_DISTANCE - 1

\* ------------------------------------------------------------------------
\* The index of the fluid cells
\* ------------------------------------------------------------------------
FluidCells == {p \in DOMAIN grid : IsFluid(grid[p])}

\* C33: with fluid cells made and removed by place, pickup and fluidUpdate
\* only, after each of these operations activeFluidBlocks holds exactly the
\* coordinates of the cells that are fluid.
C33_IndexExact ==
  op.name \in {"place", "pickup", "fluidUpdate"} =>
    activeFluidBlocks = {getBlockLocationString(p) : p \in FluidCells}

\* a non-source cell has fallen: its origin has left the index, the cell
\* below has joined it
C33_Witness ==
  /\ op.name = "fluidUpdate"
  /\ op.rule = "fall"
  /\ IsAir(grid[op.pos])
  /\ getBlockLocationString(Below(op.pos)) \in activeFluidBlocks
  /\ getBlockLocationString(op.pos) \notin activeFluidBlocks

\* ------------------------------------------------------------------------
\* The frame of fluidUpdate
\* ------------------------------------------------------------------------
\* C34: fluidUpdate on a cell of the fluid F changes the updated cell, the
\* cell below it when that cell is empty, and the horizontal neighbours that
\* are empty, and no other cell: a solid cell, a cell of another fluid and a
\* cell of F beside the updated one stay as they are; the pending set of
\* every other fluid stays as it is.
C34_Frame ==
  [][op'.name = "fluidUpdate" =>
       /\ \A q \in DOMAIN grid :
            grid'[q] # grid[q] =>
              \/ q = op'.pos
              \/ q = Below(op'.pos) /\ IsAir(grid[q])
              \/ q \in HorizontalNeighbors(op'.pos) /\ IsAir(grid[q])
       /\ \A f \in FluidRegistry \ {grid[op'.pos].typeId} :
            queue'[f] = queue[f]]_vars

\* an update has spread beside a cell of the same fluid and a cell of
\* another fluid, both left as they were
C34_Witness ==
  /\ op.name = "fluidUpdate"
  /\ op.rule = "stay"
  /\ \E q \in HorizontalNeighbors(op.pos) \cap DOMAIN grid :
       IsFluid(grid[q]) /\ grid[q].typeId = grid[op.pos].typeId
       /\ grid[q].depth = grid[op.pos].depth - 1
  /\ \E q \in (HorizontalNeighbors(op.pos) \cup {Below(op.pos)}) \cap DOMAIN grid :
       IsFluid(grid[q]) /\ grid[q].typeId # grid[op.pos].typeId

\* ------------------------------------------------------------------------
\* Quiescence
\* ------------------------------------------------------------------------
\* the parts of the fixed point: no fluid cell is unsustained, none has
\* empty space below, none that spreads has an empty horizontal neighbour
NoneUnsustained == \A p \in FluidCells : canBeSustained(W, p)
NoneOverAir ==
  \A p \in FluidCells :
    ~(Resolve(W, Below(p)) # Undefined /\ IsAir(Resolve(W, Below(p))))
NoneLeftToSpread ==
  \A p \in FluidCells :
    (grid[p].depth > 1 /\ ~isFlowingDownward(W, p)) =>
      \A q \in HorizontalNeighbors(p) :
        ~(Resolve(W, q) # Undefined /\ IsAir(Resolve(W, q)))

\* C35: when every pending set is empty and no deferred callback is
\* outstanding, fluidUpdate on any fluid cell would change no cell: no
\* fluid cell is unsustained, none has empty space below, and none with
\* depth > 1 and no same fluid above has an empty horizontal neighbour.
C35_QuiescentFixedPoint ==
  Quiescent =>
    /\ \A p \in FluidCells : fluidUpdate(W, p).grid = grid
    /\ NoneUnsustained
    /\ NoneOverAir
    /\ NoneLeftToSpread

\* ------------------------------------------------------------------------
\* Termination
\* ------------------------------------------------------------------------
\* bucket interactions only, MaxExternal of them at most, and the ticks
BucketNext ==
  \/ \E f \in FluidRegistry : DrainBegin(f)
  \/ DrainStep
  \/ DrainEnd
  \/ \E t \in FluidTagged, p \in DOMAIN grid : InteractWithBucket(t, p)
  \/ \E p \in DOMAIN grid : InteractWithEmptyBucket(p)
  \/ SystemRun

\* every deferred callback and every interval callback gets its tick, and a
\* running callback runs to its end: weak fairness of each, with ENABLED
\* written out (each of these steps changes vars when it is enabled)
SystemRunEnabled == Idle /\ runQueue # <<>>
DrainBeginEnabled(f) == Idle /\ Len(queue[f]) # 0
DrainEndEnabled == ~Idle /\ itemsToProcess = <<>>
TickFairness ==
  /\ []<>(~SystemRunEnabled) \/ []<><<SystemRun>>_vars
  /\ \A f \in FluidRegistry :
       []<>(~DrainBeginEnabled(f)) \/ []<><<DrainBegin(f)>>_vars
  /\ DrainStepFair
  /\ []<>(~DrainEndEnabled) \/ []<><<DrainEnd>>_vars

SpecBuckets == Init /\ [][BucketNext]_vars /\ TickFairness

AllQueuesEmpty == \A f \in FluidRegistry : queue[f] = <<>>

\* C36: after finitely many place and pickup operations and no further
\* external event, every pending set becomes empty and stays empty.
C36_PendingSetsEmpty == <>[]AllQueuesEmpty

\* the last interaction allowed has been made and run, fluid is left, and
\* nothing is pending
C36_Witness ==
  /\ external = MaxExternal
  /\ Quiescent
  /\ op.name = "drainEnd"
  /\ FluidCells # {}

\* ------------------------------------------------------------------------
\* The pickup and the state of the cell when it is cleared
\* ------------------------------------------------------------------------
\* two sources of one fluid have just been placed with buckets in adjacent
\* cells of the flat world, as placeFluidWithBucket leaves them: both are
\* in the index and pending
FlatWorld == [p \in SmallPos |-> IF p[2] = 0 THEN StoneBlock ELSE AirBlock]
TwoSourcesPlaced(f) ==
  placeFluidWithBucket(
    placeFluidWithBucket([grid |-> FlatWorld, unloaded |-> {},
                          queue |-> [g \in FluidRegistry |-> <<>>],
                          active |-> {}],
                         f, <<0, 1, 0>>),
    f, <<1, 1, 0>>)

InitTwoSources ==
  /\ unloaded = {}
  /\ draining = "none"
  /\ itemsToProcess = <<>>
  /\ runQueue = <<>>
  /\ external = 0
  /\ op = Op("init", NoPos, "none")
  /\ pendingAtStart = 0
  /\ batch = <<>>
  /\ calls = <<>>
  /\ owed = [f \in FluidRegistry |-> {}]
  /\ due = {}
  /\ actors = [a \in ActorIds |-> NoActor]
  /\ entitiesInFluid = {}
  /\ exitLog = {}
  /\ effectLog = NoEffects
  /\ InitBlockUpdate
  /\ updatesPerInterval = UPDATES_PER_TICK
  /\ \E f \in FluidRegistry :
       /\ grid = TwoSourcesPlaced(f).grid
       /\ queue = TwoSourcesPlaced(f).queue
       /\ activeFluidBlocks = TwoSourcesPlaced(f).active

SpecTwoSources == InitTwoSources /\ [][BucketNext]_vars

\* C37: the pickup callback clears a cell and gives a filled bucket only
\* when the cell is a depth-7 fluid at the moment the callback runs; of two
\* pickup callbacks for one source that run in one tick, one after the
\* other, at most one clears the cell.
C37_PickupAtClear ==
  [][/\ (op'.name = "pickup" /\ grid' # grid) =>
          /\ IsFluid(grid[op'.pos])
          /\ grid[op'.pos].depth = MAX_SPREAD_DISTANCE
     /\ (/\ op.name = "pickup" /\ op.rule = "done"
         /\ op'.name = "pickup" /\ op'.pos = op.pos) =>
          grid' = grid]_vars

\* ------------------------------------------------------------------------
\* The fall of a non-source cell
\* ------------------------------------------------------------------------
OnFloor(p) == ~IsAir(Resolve(W, Below(p)))

\* the ledges: a source s resting on a floor, a horizontal neighbour l of s
\* with a cell below it that is no floor; neither l nor the cell below is
\* a source itself
Ledges ==
  {<<s, l>> \in (DOMAIN grid) \X (DOMAIN grid) :
     /\ IsSource(grid[s])
     /\ OnFloor(s)
     /\ l \in HorizontalNeighbors(s)
     /\ Below(l) \in DOMAIN grid
     /\ grid[Below(l)] # StoneBlock
     /\ ~IsSource(grid[l])
     /\ ~IsSource(grid[Below(l)])}

\* a non-source cell that falls leaves its origin empty and a depth-8 cell
\* below
NonSourceFallStep ==
  (/\ op'.name = "fluidUpdate" /\ op'.rule = "fall"
   /\ ~IsSource(grid[op'.pos])) =>
    /\ IsAir(grid'[op'.pos])
    /\ IsFluid(grid'[Below(op'.pos)])
    /\ grid'[Below(op'.pos)].depth = 8

\* a depth-8 cell updated on a non-empty cell with no same fluid above is
\* cleared
StreamEndStep ==
  (/\ op'.name = "fluidUpdate"
   /\ grid[op'.pos].depth = 8
   /\ OnFloor(op'.pos)
   /\ Resolve(W, Above(op'.pos)).typeId # grid[op'.pos].typeId) =>
    IsAir(grid'[op'.pos])

\* C38: a non-source cell that falls leaves no column: its origin is empty
\* and the cell below has depth 8; a depth-8 cell updated on a non-empty
\* cell with no same fluid above is cleared; with a source on a floor beside
\* a cell L over empty space, the system becomes quiescent, and when it is
\* with no external event since the placement of the source, L and the cell
\* below L are empty.
C38_NoColumn ==
  /\ [][NonSourceFallStep /\ StreamEndStep]_vars
  /\ []((Quiescent /\ external <= 1) =>
         \A sl \in Ledges : IsAir(grid[sl[2]]) /\ IsAir(grid[Below(sl[2])]))
  /\ <>[]AllQueuesEmpty

\* the stream beside a source has fallen from the ledge and its depth-8 cell
\* has been cleared on the bottom of the pit: nothing is pending, the
\* source is there, the ledge and the pit are empty
C38_Witness ==
  /\ Quiescent
  /\ external <= 1
  /\ Ledges # {}
  /\ op.name = "drainEnd"
  /\ \A sl \in Ledges : IsAir(grid[sl[2]]) /\ IsAir(grid[Below(sl[2])])

\* ------------------------------------------------------------------------
\* A source over a shaft
\* ------------------------------------------------------------------------
\* a shaft of ShaftDepth empty cells under the cell <<0, ShaftDepth, 0>>,
\* stone beside it but for a cave at its bottom
ShaftDepth == 2
ShaftTop == <<0, ShaftDepth, 0>>
ShaftPos == {<<x, y, 0>> : x \in 0..1, y \in 0..ShaftDepth}
ShaftWorld ==
  [p \in ShaftPos |-> IF p[1] = 1 /\ p[2] > 0 THEN StoneBlock ELSE AirBlock]
ShaftBelow == {<<0, y, 0>> : y \in 0..(ShaftDepth - 1)}
Cave == <<1, 0, 0>>

InitShaft ==
  /\ grid = ShaftWorld
  /\ updatesPerInterval = UPDATES_PER_TICK
  /\ InitCommon

SpecShaft == InitShaft /\ [][BucketNext]_vars /\ TickFairness

\* the fall of a source leaves the source and makes a source below
SourceFallStep ==
  (/\ op'.name = "fluidUpdate" /\ op'.rule = "fall"
   /\ IsSource(grid[op'.pos])) =>
    /\ grid'[op'.pos] = grid[op'.pos]
    /\ IsSource(grid'[Below(op'.pos)])
    /\ grid'[Below(op'.pos)].typeId = grid[op'.pos].typeId

\* an update of a cell under the same fluid writes no horizontal neighbour
UnderSameFluidStep ==
  (/\ op'.name = "fluidUpdate"
   /\ Resolve(W, Above(op'.pos)).typeId = grid[op'.pos].typeId) =>
    \A q \in HorizontalNeighbors(op'.pos) \cap DOMAIN grid : grid'[q] = grid[q]

\* a source stays a source of its fluid but for the pickup of itself
SourceStaysStep ==
  \A p \in DOMAIN grid :
    (IsSource(grid[p]) /\ ~(op'.name = "pickup" /\ op'.pos = p)) =>
      (IsSource(grid'[p]) /\ grid'[p].typeId = grid[p].typeId)

\* C39: a source with k >= 1 empty cells below it turns all of them into
\* sources and stays a source; each lower source has the same fluid above
\* and writes no horizontal neighbour, the lowest one on the floor too; the
\* lower sources stay when the first source is picked up.
C39_SourceColumn ==
  /\ [][SourceFallStep /\ UnderSameFluidStep /\ SourceStaysStep]_vars
  /\ []((Quiescent /\ external <= 1) =>
         \A p \in DOMAIN grid : IsSource(grid[p]) => OnFloor(p))
  /\ []((Quiescent /\ IsSource(grid[ShaftTop]) /\ external <= 1) =>
         /\ \A p \in ShaftBelow :
              IsSource(grid[p]) /\ grid[p].typeId = grid[ShaftTop].typeId
         /\ IsAir(grid[Cave]))
  /\ <>[]AllQueuesEmpty

\* the one source placed over the shaft has filled it: the shaft cells are
\* sources, the cave beside the lowest is empty
C39_Witness ==
  /\ Quiescent
  /\ op.name = "drainEnd"
  /\ external = 1
  /\ IsSource(grid[ShaftTop])
  /\ \A p \in ShaftBelow : IsSource(grid[p])
  /\ IsAir(grid[Cave])

\* ------------------------------------------------------------------------
\* Where the depths come from
\* ------------------------------------------------------------------------
\* the cells a step has made fluid or has given another depth
DepthWritten ==
  {q \in DOMAIN grid :
     /\ IsFluid(grid'[q])
     /\ ~(IsFluid(grid[q]) /\ grid[q].typeId = grid'[q].typeId
          /\ grid[q].depth = grid'[q].depth)}

FallOnto(q) ==
  /\ op'.name = "fluidUpdate"
  /\ op'.rule = "fall"
  /\ q = Below(op'.pos)
  /\ grid'[q].typeId = grid[op'.pos].typeId

\* C40: every fluid cell written by place or fluidUpdate has a depth in
\* 1..8; depth 8 is written by the fall of a non-source cell only, depth 7
\* by place or by the fall of a source only, depths 1..6 by the horizontal
\* spread only.
C40_DepthProvenance ==
  [][op'.name \in {"place", "fluidUpdate"} =>
       \A q \in DepthWritten :
         /\ grid'[q].depth \in 1..8
         /\ grid'[q].depth = 8 =>
              (FallOnto(q) /\ ~IsSource(grid[op'.pos]))
         /\ grid'[q].depth = MAX_SPREAD_DISTANCE =>
              \/ op'.name = "place" /\ q = op'.pos
              \/ FallOnto(q) /\ IsSource(grid[op'.pos])
         /\ grid'[q].depth \in 1..(MAX_SPREAD_DISTANCE - 1) =>
              /\ op'.name = "fluidUpdate"
              /\ op'.rule \in {"stay", "throw"}
              /\ q \in HorizontalNeighbors(op'.pos)
              /\ grid'[q].typeId = grid[op'.pos].typeId
              /\ grid'[q].depth = grid[op'.pos].depth - 1]_vars

\* a stream cell of depth 8 lies under a spread cell beside a source
C40_Witness ==
  \E q \in DOMAIN grid :
    /\ IsFluid(grid[q]) /\ grid[q].depth = 8
    /\ op.name = "fluidUpdate" /\ op.rule = "fall" /\ q = Below(op.pos)
    /\ \E s \in DOMAIN grid :
         IsSource(grid[s]) /\ op.pos \in HorizontalNeighbors(s)
====
